---- MODULE Spec2Model ----
(***************************************************************************)
(* Position lifecycle of uniswap_hft.web3_manager.web_manager.Web3Manager: *)
(* the instance-wide lock decorator and the three locked operations        *)
(* open_position, update_position and close_position, called by            *)
(* concurrent request threads (the control plane is a threaded Flask       *)
(* server, trading_engine/api.py:275).                                     *)
(*                                                                         *)
(* Each caller executes the Python code statement by statement; one action *)
(* is one access to shared state (self.lock, self.position_history, the    *)
(* history file) or one venue call.  A venue call either returns or        *)
(* raises.                                                                 *)
(***************************************************************************)
EXTENDS Integers, Sequences, FiniteSets, TLC

\* ------------------------------------------------------------------ bounds
\* Longest history file that is loaded at construction.
MaxHistory == 2
\* The pool's tick, as the venue reports it, ranges over 0..MaxTick.
MaxTick == 3
\* The wall clock, as time.time() reports it, ranges over 1..MaxClock seconds
\* after the stored history was last written.
MaxClock == 1

\* Token amounts are counted in lots (the venue's lot size, which is also the
\* third decimal that round_down keeps); capitals are 100, 200, .. lots up to
\* 100 * MaxAmount, so that the 1 % slippage allowance is one lot or more.
MaxAmount == 2
\* Deadline of a wait loop, in sleep periods.
MaxDeadline == 1

\* Request threads calling into the one manager instance.
Callers == {"c1", "c2"}
Ticks == 0 .. MaxTick
Times == 1 .. MaxClock
Operations == {"open_position", "update_position", "close_position"}

VARIABLES
    lock,              \* self.lock
    position_history,  \* self.position_history
    history_file,      \* the JSON file at self.position_history_path
    cex_credentials,   \* truthiness of self.cex_credentials
    burn_on_close,     \* self.burn_on_close
    confirmed,         \* venue: per token id, the transactions confirmed to the manager
    pc,                \* per caller: the statement it is about to execute
    fn,                \* per caller: the decorated function whose wrapper/body is innermost
    op,                \* per caller: the operation it called on the manager
    site,              \* per caller: the call site inside update_position it is nested under
    exc,               \* per caller: the exception propagating, or "none"
    current_tick,      \* per caller: local of update_position
    token_id,          \* per caller: local of close_position
    txs,               \* per caller: state-changing venue calls made by the current call
    subcalls,          \* per caller: outcomes of the calls update_position made
    branch,            \* per caller: the branch the current call's body took
    funds_pc,          \* funds step: the statement the funds function is about to execute
    funds_op,          \* funds step: the function that was called
    funds_exc,         \* funds step: the exception propagating, or "none"
    amount0,           \* self.amount0
    amount1,           \* self.amount1
    maximum_spread_bps, \* cex_client_subaccount.maximum_spread_bps
    amounts,           \* local `amounts` / `wallet_amounts` of the funds function
    withdraw_amount,   \* locals withdraw_amount0, withdraw_amount1 (keys into amounts)
    wallet_amount,     \* locals wallet_amount0, wallet_amount1 (pre-withdraw balances)
    return_values,     \* local return_values of swap_amounts_okx_blocktrading
    elapsed,           \* wait loops: time.time() minus the loop's start
    polled,            \* wait loops: the balance the last poll returned
    attempt,           \* retry_on_exception: iterations of the retry loop used up
    background_process, \* self.background_process is set
    steps,             \* venue steps submitted by the current call, with their results
    open_position_calls, \* calls of open_position made by the recovery task
    running,           \* engine.running
    serving,           \* TradingEngine.__init__ has returned and the API is served
    request,           \* per caller: the endpoint of the HTTP request it handles
    response,          \* per caller: the message of the response it is about to send
    unit_pc,           \* a function called on its own: the statement it is about to execute
    unit_args,         \* a function called on its own: its arguments
    unit_result        \* a function called on its own: what it has computed so far

shared == <<lock, position_history, history_file, cex_credentials, burn_on_close>>
venue == <<confirmed>>
frames == <<pc, fn, op, site, exc>>
locals == <<current_tick, token_id>>
observed == <<txs, subcalls, branch>>
position == <<shared, venue, frames, locals, observed>>
funds == <<funds_pc, funds_op, funds_exc, amount0, amount1, maximum_spread_bps,
           amounts, withdraw_amount, wallet_amount, return_values, elapsed, polled,
           attempt, background_process, steps, open_position_calls>>
engine == <<running, serving, request, response>>
unit == <<unit_pc, unit_args, unit_result>>
vars == <<position, funds, engine, unit>>

\* ------------------------------------------------------------ data model
Last(h) == h[Len(h)]

\* uniswap.get_current_price: the price decoded from slot0, which falls as the
\* tick rises when token0 is the stable asset.
PriceOf(tick) == 100 - tick

\* The prices the venue may report while the pool stands at `tick`: the two
\* reads of update_position (lines 1353-1354) decode the same slot0 word.
Prices(tick) == {PriceOf(tick)}

\* A record as json.load returns it from a file a previous run stored.
StoredRecord(id, open) ==
    [tokenID       |-> id,
     is_open       |-> open,
     tick_lower    |-> 1,
     tick_upper    |-> MaxTick - 1,
     tick_current  |-> 1,
     price_current |-> PriceOf(1),
     last_update   |-> 0,
     tx_decrease   |-> IF open THEN "none" ELSE "tx",
     tx_collect    |-> IF open THEN "none" ELSE "tx",
     tx_burn       |-> "none"]

\* The histories a previous run leaves in the file: closed records, then
\* possibly the position that was open when the process stopped.
StoredHistory(n, open) ==
    [i \in 1 .. n |-> StoredRecord(i, open /\ i = n)]

\* A store_position_history that leaves the file as it is.
store_position_history_not_written(h) == history_file

\* store_position_history: the whole list is rewritten.
store_position_history(h) == [exists |-> TRUE, content |-> h]

\* load_position_history inside __init__'s try/except.
load_position_history(f) == IF f.exists THEN f.content ELSE <<>>

\* -------------------------------------------------------------- funds: data
\* self.amount0 / self.amount1 as calculate_position_range_and_amounts leaves
\* them (lines 1309-1313).
Capitals == {100 * i : i \in 1 .. MaxAmount}

\* Balances the wallet or the venue may report.
Balances == {100 * i + j : i \in 0 .. MaxAmount, j \in 0 .. 1}

\* Trading balances the venue may report once the trade is settled: nothing,
\* less than any requirement, more than the smallest one.
SettledBalances == {0, 100, 100 * MaxAmount + 1}

\* Wallet balances left over for a deposit (get_amounts_okx_blocktrading,
\* lines 507-518).
Deposits == {0, 100}

\* Prices get_current_price may report to the funds functions.
FundsPrices == {1, 4}

\* cex_client_subaccount.get_currency(..)["maxFee"], lines 533-544.
maxFee == 1

\* Configured maximum spreads, in basis points.
Spreads == {0, 2500}

\* retry_on_exception's default `retries` (uniswap.py:15).
retries == 3

abs(x) == IF x < 0 THEN 0 - x ELSE x

\* get_existing_required_amounts, lines 374-375: int(amount * 1.01).
required_amount(amount) == (amount * 101) \div 100

\* OKXClient.round_amount with lot size 1 applied to the quotient n / d
\* (n >= 0, d > 0): decimal.ROUND_05UP rounds toward zero unless the digit it
\* would leave is 0 or 5 and something was cut off.
round_amount_to_lotsize(n, d) ==
    LET q == n \div d
    IN  IF n % d # 0 /\ q % 5 = 0 THEN q + 1 ELSE q

\* get_cex_balances, lines 485 and 495: decimal balance to token units.
to_token_units(x) == x * 10

\* The local `amounts` before any of the functions has filled it.
NoAmounts ==
    [current_price |-> 0,
     existing_amount0 |-> 0, existing_amount1 |-> 0,
     required_amount0 |-> 0, required_amount1 |-> 0,
     cex_existing_amount0 |-> 0, cex_existing_amount1 |-> 0,
     cex_existing_amount0_decimal |-> 0, cex_existing_amount1_decimal |-> 0,
     required_amount0_decimal |-> 0, required_amount1_decimal |-> 0,
     diff_amount1_in_token0 |-> 0, diff_amount0_in_token1 |-> 0,
     required_swap_amount_from_token0_decimal |-> 0,
     required_swap_amount_from_token1_decimal |-> 0]

\* get_amounts_okx_blocktrading, lines 504-625, from what the venues answer:
\* the price, the wallet balances and the trading balances at the CEX.
get_amounts_okx_blocktrading(price, wallet0, wallet1, cex0, cex1) ==
    LET required0 == required_amount(amount0) + maxFee
        required1 == required_amount(amount1) + maxFee
        spread == 10000 + maximum_spread_bps
        diff1_in0 == round_amount_to_lotsize(abs(required1 - cex1) * spread, price * 10000)
        diff0_in1 == round_amount_to_lotsize(abs(required0 - cex0) * price * spread, 10000)
    IN  [current_price |-> price,
         existing_amount0 |-> wallet0, existing_amount1 |-> wallet1,
         required_amount0 |-> required_amount(amount0),
         required_amount1 |-> required_amount(amount1),
         cex_existing_amount0 |-> to_token_units(cex0),
         cex_existing_amount1 |-> to_token_units(cex1),
         cex_existing_amount0_decimal |-> cex0, cex_existing_amount1_decimal |-> cex1,
         required_amount0_decimal |-> required0, required_amount1_decimal |-> required1,
         diff_amount1_in_token0 |-> diff1_in0, diff_amount0_in_token1 |-> diff0_in1,
         required_swap_amount_from_token0_decimal |-> required0 + diff1_in0,
         required_swap_amount_from_token1_decimal |-> required1 + diff0_in1]

\* swap_amounts_uniswap, lines 1178-1183: price, wallet balances, requirements.
get_existing_required_amounts(price, wallet0, wallet1) ==
    [NoAmounts EXCEPT !.current_price = price,
                      !.existing_amount0 = wallet0, !.existing_amount1 = wallet1,
                      !.required_amount0 = required_amount(amount0),
                      !.required_amount1 = required_amount(amount1)]

\* No funds function is running (the manager as __init__ leaves it: line 190,
\* self.background_process = None).
funds_at_rest ==
    /\ funds_pc = "idle"
    /\ funds_op = "none"
    /\ funds_exc = "none"
    /\ amounts = NoAmounts
    /\ withdraw_amount = <<"none", "none">>
    /\ wallet_amount = <<0, 0>>
    /\ return_values = <<>>
    /\ elapsed = 0
    /\ polled = 0
    /\ attempt = 0
    /\ background_process = FALSE
    /\ steps = <<>>
    /\ open_position_calls = 0

\* The manager is used on its own, as the manager's tests use it: no engine is
\* built around it and no request is served.
engine_absent ==
    /\ running = FALSE
    /\ serving = FALSE
    /\ request = [t \in Callers |-> "none"]
    /\ response = [t \in Callers |-> "none"]

\* No function is being called on its own.
unit_at_rest ==
    /\ unit_pc = "idle"
    /\ unit_args = [fn |-> "none"]
    /\ unit_result = [fn |-> "none"]

Init ==
    /\ \E n \in 0 .. MaxHistory, open \in BOOLEAN, present \in BOOLEAN :
         /\ n = 0 => ~open
         /\ n > 0 => present
         /\ history_file = [exists |-> present, content |-> StoredHistory(n, open)]
         /\ confirmed = [i \in 1 .. MaxHistory |->
                           IF i < n \/ (i = n /\ ~open)
                           THEN {"decrease", "collect"} ELSE {}]
    /\ position_history = load_position_history(history_file)
    /\ lock = FALSE
    /\ cex_credentials \in BOOLEAN
    /\ burn_on_close \in BOOLEAN
    /\ pc = [t \in Callers |-> "idle"]
    /\ fn = [t \in Callers |-> "none"]
    /\ op = [t \in Callers |-> "none"]
    /\ site = [t \in Callers |-> "none"]
    /\ exc = [t \in Callers |-> "none"]
    /\ current_tick = [t \in Callers |-> 0]
    /\ token_id = [t \in Callers |-> 0]
    /\ txs = [t \in Callers |-> <<>>]
    /\ subcalls = [t \in Callers |-> <<>>]
    /\ branch = [t \in Callers |-> "none"]
    /\ funds_at_rest
    /\ amount0 = 0
    /\ amount1 = 0
    /\ maximum_spread_bps = 0
    /\ engine_absent
    /\ unit_at_rest


\* ------------------------------------------------------- the lock decorator
\* A wrapper whose test never sees the lock.
lock_never_engaged(l) == FALSE

\* A wrapper that frees the lock on return only, as without try/finally.
lock_kept_on_exception(e) == e # "none"

\* `if self.lock:` in the wrapper.
lock_is_engaged(l) == l

\* The value self.lock holds after the wrapper's try/finally, whether the body
\* returned (e = "none") or raised.
lock_after_finally(e) == FALSE

\* The first statement of each decorated function's body.
body_entry(f) ==
    CASE f = "open_position"   -> "open_calculate"
      [] f = "close_position"  -> "close_check"
      [] f = "update_position" -> "update_check"

\* Control leaves the wrapper of fn[t] with `outcome` and goes back to whoever
\* called it: the caller of the manager, whose next request starts afresh, the
\* engine method that called the manager for a request (an exception goes on
\* propagating there), or the body of update_position at the call site it is
\* nested under.  An
\* exception raised under update_position unwinds to update_position's own
\* wrapper.
Leave(t, outcome) ==
    IF site[t] = "none"
    THEN /\ pc' = [pc EXCEPT ![t] = IF request[t] = "none" THEN "idle" ELSE "engine_return"]
         /\ fn' = [fn EXCEPT ![t] = "none"]
         /\ op' = [op EXCEPT ![t] = "none"]
         /\ exc' = [exc EXCEPT ![t] = IF request[t] = "none" THEN "none" ELSE @]
         /\ txs' = [txs EXCEPT ![t] = <<>>]
         /\ subcalls' = [subcalls EXCEPT ![t] = <<>>]
         /\ branch' = [branch EXCEPT ![t] = "none"]
         /\ UNCHANGED site
    ELSE /\ subcalls' = [subcalls EXCEPT ![t] = Append(@, <<fn[t], outcome>>)]
         /\ UNCHANGED <<op, exc, txs, branch>>
         /\ IF outcome # "raised" /\ site[t] = "rebalance_close"
            THEN \* line 1384: self.open_position()
                 /\ fn' = [fn EXCEPT ![t] = "open_position"]
                 /\ site' = [site EXCEPT ![t] = "rebalance_open"]
                 /\ pc' = [pc EXCEPT ![t] = "lock_check"]
            ELSE \* update_position's body ends (return, last statement or raise)
                 /\ fn' = [fn EXCEPT ![t] = "update_position"]
                 /\ site' = [site EXCEPT ![t] = "none"]
                 /\ pc' = [pc EXCEPT ![t] = "lock_release"]

\* A request thread calls one of the three operations on the manager.
call(t, f) ==
    /\ pc[t] = "idle"
    /\ UNCHANGED <<funds, engine, unit>>
    /\ pc' = [pc EXCEPT ![t] = "lock_check"]
    /\ fn' = [fn EXCEPT ![t] = f]
    /\ op' = [op EXCEPT ![t] = f]
    /\ UNCHANGED <<shared, venue, site, exc, locals, observed>>

\* wrapper, lines 43-45: the lock is tested; an engaged lock makes the call
\* return None at once.
lock_check(t) ==
    /\ pc[t] = "lock_check"
    /\ UNCHANGED <<funds, engine, unit>>
    /\ IF lock_is_engaged(lock)
       THEN Leave(t, "skipped")
       ELSE /\ pc' = [pc EXCEPT ![t] = "lock_engage"]
            /\ UNCHANGED <<fn, op, site, exc, observed>>
    /\ UNCHANGED <<shared, venue, locals>>

\* wrapper, lines 47-51: the lock is set and the body is entered.
lock_engage(t) ==
    /\ pc[t] = "lock_engage"
    /\ UNCHANGED <<funds, engine, unit>>
    /\ lock' = TRUE
    /\ pc' = [pc EXCEPT ![t] = body_entry(fn[t])]
    /\ UNCHANGED <<position_history, history_file, cex_credentials, burn_on_close,
                   venue, fn, op, site, exc, locals, observed>>

\* wrapper, lines 52-55: the finally clause, then return or re-raise.
lock_release(t) ==
    /\ pc[t] = "lock_release"
    /\ UNCHANGED <<funds, engine, unit>>
    /\ lock' = lock_after_finally(exc[t])
    /\ Leave(t, IF exc[t] = "none" THEN "returned" ELSE "raised")
    /\ UNCHANGED <<position_history, history_file, cex_credentials, burn_on_close,
                   venue, locals>>

\* A statement of the body raises: the exception unwinds to the wrapper.
Raise(t, e) ==
    /\ exc' = [exc EXCEPT ![t] = e]
    /\ pc' = [pc EXCEPT ![t] = "lock_release"]

\* ------------------------------------------------------------ open_position
\* TokenManager.range_from_tick is declared in the class body without `self`
\* and without @staticmethod (TokenManagement.py:194), and
\* calculate_position_range_and_amounts calls it on the instance with
\* currentTick passed by keyword (web_manager.py:1294-1297): the instance
\* binds to currentTick and the call raises TypeError ("multiple values for
\* argument 'currentTick'").  The venue reads before it may raise first.
calculate_position_range_and_amounts_raises == {"VenueError", "TypeError"}

\* An open_position that appends its record as soon as it is built.
open_position_recorded_on_entry(h) == Append(h, StoredRecord(Len(h) + 1, TRUE))

\* An open_position whose failure path drops the last record.
open_position_rollback_drops_last(h) == SubSeq(h, 1, Len(h) - 1)

\* The history open_position leaves behind when its first statement raises:
\* the record it is building is appended only after the mint (line 1465).
open_position_aborted_history(h) == h

\* open_position, line 1399: the range computation raises and nothing after
\* it runs.
open_position_calculate(t) ==
    /\ pc[t] = "open_calculate"
    /\ UNCHANGED <<funds, engine, unit>>
    /\ \E e \in calculate_position_range_and_amounts_raises : Raise(t, e)
    /\ position_history' = open_position_aborted_history(position_history)
    /\ UNCHANGED <<lock, history_file, cex_credentials, burn_on_close,
                   venue, fn, op, site, locals, observed>>


\* ----------------------------------------------------------- close_position
\* The statement after collect_fees, by configuration (lines 1526, 1535).
after_collect == IF cex_credentials THEN "close_unwrap"
                 ELSE IF burn_on_close THEN "close_burn" ELSE "close_store"
after_unwrap == IF burn_on_close THEN "close_burn" ELSE "close_store"

\* lines 1546-1549: the last record as close_position leaves it.
closed_record(r, time) ==
    [r EXCEPT !.tx_decrease = "tx", !.tx_collect = "tx",
              !.last_update = time, !.is_open = FALSE]

\* `branch` records the branch taken by the operation the caller called; a
\* close_position that update_position called leaves it alone.
close_branch(t, b) == IF site[t] = "none" THEN [branch EXCEPT ![t] = b] ELSE branch

\* lines 1500-1506: position_history[-1]["is_open"] is read; an empty list
\* raises IndexError, a closed last record returns.
close_position_check(t) ==
    /\ pc[t] = "close_check"
    /\ UNCHANGED <<funds, engine, unit>>
    /\ IF Len(position_history) = 0
       THEN /\ Raise(t, "IndexError")
            /\ branch' = close_branch(t, "empty_history")
            /\ UNCHANGED token_id
       ELSE IF ~Last(position_history).is_open
       THEN /\ pc' = [pc EXCEPT ![t] = "lock_release"]
            /\ branch' = close_branch(t, "no_open_position")
            /\ UNCHANGED <<exc, token_id>>
       ELSE /\ token_id' = [token_id EXCEPT ![t] = Last(position_history).tokenID]
            /\ pc' = [pc EXCEPT ![t] = "close_decrease"]
            /\ branch' = close_branch(t, "close")
            /\ UNCHANGED exc
    /\ UNCHANGED <<shared, venue, fn, op, site, current_tick, txs, subcalls>>

\* A state-changing venue call on the tracked token: it is confirmed and the
\* body goes on to `next`, or it raises and the body's frame is gone.
venue_call(t, name, next) ==
    /\ UNCHANGED <<funds, engine, unit>>
    /\ txs' = [txs EXCEPT ![t] = Append(@, name)]
    /\ \E ok \in BOOLEAN :
         IF ok
         THEN /\ confirmed' = IF name \in {"decrease", "collect", "burn"}
                              THEN [confirmed EXCEPT ![token_id[t]] = @ \cup {name}]
                              ELSE confirmed
              /\ pc' = [pc EXCEPT ![t] = next]
              /\ UNCHANGED exc
         ELSE /\ Raise(t, "VenueError")
              /\ UNCHANGED confirmed
    /\ token_id' = [token_id EXCEPT ![t] = IF pc'[t] = "lock_release" THEN 0 ELSE @]
    /\ UNCHANGED <<lock, history_file, cex_credentials, burn_on_close,
                   fn, op, site, current_tick, subcalls, branch>>

\* line 1510: uniswap.decrease_liquidity(tokenId=token_id)
close_position_decrease_liquidity(t) ==
    /\ pc[t] = "close_decrease"
    /\ venue_call(t, "decrease", "close_collect")
    /\ UNCHANGED position_history

\* line 1517: uniswap.collect_fees(tokenId=token_id)
close_position_collect_fees(t) ==
    /\ pc[t] = "close_collect"
    /\ venue_call(t, "collect", after_collect)
    /\ UNCHANGED position_history

\* lines 1526-1532: with CEX credentials the wrapped balance is unwrapped.
close_position_unwrap_weth(t) ==
    /\ pc[t] = "close_unwrap"
    /\ venue_call(t, "unwrap", after_unwrap)
    /\ UNCHANGED position_history

\* lines 1535-1543: burn_token, and tx_burn is written on the last record
\* right away (it is not stored until line 1552).
close_position_burn_token(t) ==
    /\ pc[t] = "close_burn"
    /\ venue_call(t, "burn", "close_store")
    /\ position_history' =
         IF pc'[t] = "close_store"
         THEN [position_history EXCEPT ![Len(position_history)].tx_burn = "tx"]
         ELSE position_history

\* A close_position that marks the oldest record.
closed_index_oldest(h) == 1

\* lines 1546-1549: the subscript [-1] of the record that is marked closed.
closed_index(h) == Len(h)

\* lines 1546-1557: the last record is marked closed and the file rewritten.
close_position_store(t) ==
    /\ pc[t] = "close_store"
    /\ UNCHANGED <<funds, engine, unit>>
    /\ \E time \in Times :
         position_history' =
           [position_history EXCEPT ![closed_index(position_history)] = closed_record(@, time)]
    /\ history_file' = store_position_history(position_history')
    /\ token_id' = [token_id EXCEPT ![t] = 0]
    /\ pc' = [pc EXCEPT ![t] = "lock_release"]
    /\ UNCHANGED <<lock, cex_credentials, burn_on_close, venue, fn, op, site, exc,
                   current_tick, observed>>


\* ---------------------------------------------------------- update_position
\* A range test that counts the bounds themselves as outside.
out_of_range_exclusive_bounds(tick, r) == tick >= r.tick_upper \/ tick <= r.tick_lower

\* lines 1367-1370: the range test on the last record.
out_of_range(tick, r) == tick > r.tick_upper \/ tick < r.tick_lower

\* lines 1359-1361: the fields update_position overwrites on the last record.
refreshed_record(r, tick, price, time) ==
    [r EXCEPT !.tick_current = tick, !.price_current = price, !.last_update = time]

\* lines 1347-1350: position_history[-1]["is_open"] is read; an empty list
\* raises IndexError; with no open position open_position is called (the
\* lock is still engaged by update_position's own wrapper).
update_position_check(t) ==
    /\ pc[t] = "update_check"
    /\ UNCHANGED <<funds, engine, unit>>
    /\ IF Len(position_history) = 0
       THEN /\ Raise(t, "IndexError")
            /\ branch' = [branch EXCEPT ![t] = "empty_history"]
            /\ UNCHANGED <<fn, site>>
       ELSE IF ~Last(position_history).is_open
       THEN /\ fn' = [fn EXCEPT ![t] = "open_position"]
            /\ site' = [site EXCEPT ![t] = "delegate_open"]
            /\ pc' = [pc EXCEPT ![t] = "lock_check"]
            /\ branch' = [branch EXCEPT ![t] = "delegate"]
            /\ UNCHANGED exc
       ELSE /\ pc' = [pc EXCEPT ![t] = "update_refresh"]
            /\ UNCHANGED <<fn, site, exc, branch>>
    /\ UNCHANGED <<shared, venue, op, locals, txs, subcalls>>

\* lines 1353-1364: the price and the tick are read from the venue (either
\* read may raise), the last record is refreshed and the file rewritten.
\* The reads touch nothing the other callers see, so they are taken together
\* with the write that follows them.
update_position_refresh(t) ==
    /\ pc[t] = "update_refresh"
    /\ UNCHANGED <<funds, engine, unit>>
    /\ \/ \E tick \in Ticks, time \in Times : \E price \in Prices(tick) :
            /\ current_tick' = [current_tick EXCEPT ![t] = tick]
            /\ position_history' =
                 [position_history EXCEPT ![Len(position_history)] =
                    refreshed_record(@, tick, price, time)]
            /\ history_file' = store_position_history(position_history')
            /\ pc' = [pc EXCEPT ![t] = "update_compare"]
            /\ UNCHANGED exc
       \/ /\ Raise(t, "VenueError")
          /\ UNCHANGED <<current_tick, position_history, history_file>>
    /\ UNCHANGED <<lock, cex_credentials, burn_on_close, venue, fn, op, site,
                   token_id, observed>>

\* lines 1367-1381: inside the range the body ends; outside it the lock is
\* disengaged by hand and close_position is called.
update_position_compare(t) ==
    /\ pc[t] = "update_compare"
    /\ UNCHANGED <<funds, engine, unit>>
    /\ IF out_of_range(current_tick[t], Last(position_history))
       THEN /\ lock' = FALSE
            /\ fn' = [fn EXCEPT ![t] = "close_position"]
            /\ site' = [site EXCEPT ![t] = "rebalance_close"]
            /\ pc' = [pc EXCEPT ![t] = "lock_check"]
            /\ branch' = [branch EXCEPT ![t] = "rebalance"]
       ELSE /\ pc' = [pc EXCEPT ![t] = "lock_release"]
            /\ branch' = [branch EXCEPT ![t] = "in_range"]
            /\ UNCHANGED <<lock, fn, site>>
    /\ current_tick' = [current_tick EXCEPT ![t] = 0]
    /\ UNCHANGED <<position_history, history_file, cex_credentials, burn_on_close,
                   venue, op, exc, token_id, txs, subcalls>>

Next ==
    \/ \E t \in Callers, f \in Operations : call(t, f)
    \/ \E t \in Callers : lock_check(t)
    \/ \E t \in Callers : lock_engage(t)
    \/ \E t \in Callers : lock_release(t)
    \/ \E t \in Callers : open_position_calculate(t)
    \/ \E t \in Callers : close_position_check(t)
    \/ \E t \in Callers : close_position_decrease_liquidity(t)
    \/ \E t \in Callers : close_position_collect_fees(t)
    \/ \E t \in Callers : close_position_unwrap_weth(t)
    \/ \E t \in Callers : close_position_burn_token(t)
    \/ \E t \in Callers : close_position_store(t)
    \/ \E t \in Callers : update_position_check(t)
    \/ \E t \in Callers : update_position_refresh(t)
    \/ \E t \in Callers : update_position_compare(t)

Spec == Init /\ [][Next]_vars

\* ------------------------------------------------------- funds: the CEX saga
\* A statement of a funds function raises: nothing catches it on the way out.
FundsRaise(e) == funds_exc' = e /\ funds_pc' = "done"

\* A venue step is submitted / the step submitted last ends with `result`.
Submitted(name, result) == Append(steps, [step |-> name, result |-> result])
Ended(result) == [steps EXCEPT ![Len(steps)].result = result]

\* What a step hands back to swap_amounts_okx_blocktrading for return_values.
Returned(name, code) == Append(return_values, [kind |-> name, code |-> code])

\* Statement labels of the two-token steps.
Label(stem, k) == IF k = 0 THEN stem \o "0" ELSE stem \o "1"

\* The functions that move funds, as a caller (or a test) invokes them.
FundsOperations == {"swap_amounts_okx_blocktrading", "swap_amounts_uniswap",
                    "handle_wait_for_withdrawal_okx_blocktrading_exception"}

funds_entry(f) ==
    CASE f = "swap_amounts_okx_blocktrading" -> "okx_unwrap"
      [] f = "swap_amounts_uniswap" -> "dex_amounts"
      [] f = "handle_wait_for_withdrawal_okx_blocktrading_exception" -> "recovery_wait"

\* One of the funds functions is called.  The recovery task is handed the
\* wallet balance it is to see exceeded (lines 1140-1148).
call_funds(f) ==
    /\ funds_pc = "idle"
    /\ funds_op' = f
    /\ funds_pc' = funds_entry(f)
    /\ IF f = "handle_wait_for_withdrawal_okx_blocktrading_exception"
       THEN \E w \in Deposits : wallet_amount' = <<w, 0>> /\ polled' = w
       ELSE UNCHANGED <<wallet_amount, polled>>
    /\ UNCHANGED <<position, engine, unit, funds_exc, amount0, amount1, maximum_spread_bps, amounts, withdraw_amount, return_values,
                 elapsed, attempt, background_process, steps, open_position_calls>>

\* line 918: update_wallet_balance(unwrap_weth=True).
okx_unwrap ==
    /\ funds_pc = "okx_unwrap"
    /\ \/ funds_pc' = "okx_amounts_1" /\ UNCHANGED funds_exc
       \/ FundsRaise("VenueError")
    /\ UNCHANGED <<position, engine, unit, funds_op, amount0, amount1, maximum_spread_bps, amounts, withdraw_amount, wallet_amount,
                 return_values, elapsed, polled, attempt, background_process, steps, open_position_calls>>

\* lines 920 and 945: amounts = self.get_amounts_okx_blocktrading().  After
\* the deposit phase nothing is left in the wallet to deposit; the locals of
\* a wait loop that has returned are gone.
okx_get_amounts(stage) ==
    /\ stage \in 1 .. 2
    /\ funds_pc = (IF stage = 1 THEN "okx_amounts_1" ELSE "okx_amounts_2")
    /\ \/ \E price \in FundsPrices, cex0 \in Balances, cex1 \in Balances :
            \E wallet0 \in (IF stage = 1 THEN Deposits ELSE {0}),
               wallet1 \in (IF stage = 1 THEN Deposits ELSE {0}) :
               /\ amounts' = get_amounts_okx_blocktrading(price, wallet0, wallet1, cex0, cex1)
               /\ funds_pc' = IF stage = 1 THEN "okx_deposit0" ELSE "okx_decide"
               /\ UNCHANGED funds_exc
       \/ FundsRaise("VenueError") /\ UNCHANGED amounts
    /\ polled' = 0
    /\ UNCHANGED <<position, engine, unit, funds_op, amount0, amount1, maximum_spread_bps, withdraw_amount, wallet_amount, return_values,
                 elapsed, attempt, background_process, steps, open_position_calls>>

\* The balance wait_for_deposit_okx_blocktrading / the withdrawal wait
\* compares its polls with.
deposit_snapshot(k) ==
    IF k = 0 THEN amounts.cex_existing_amount0 ELSE amounts.cex_existing_amount1
existing_amount(k) ==
    IF k = 0 THEN amounts.existing_amount0 ELSE amounts.existing_amount1

\* lines 924-945: the statement after the deposit of token k.
after_deposit(k) == IF k = 0 THEN "okx_deposit1" ELSE "okx_amounts_2"

\* lines 924-942 and 680-686: deposit_funds_cex for token k if the wallet has
\* something to deposit; then the wait for its arrival starts.
okx_deposit(k) ==
    /\ funds_pc = Label("okx_deposit", k)
    /\ IF existing_amount(k) > 0
       THEN \/ /\ steps' = Submitted(Label("deposit", k), "pending")
               /\ funds_pc' = Label("okx_wait_deposit", k)
               /\ polled' = deposit_snapshot(k)
               /\ UNCHANGED funds_exc
            \/ /\ steps' = Submitted(Label("deposit", k), "VenueError")
               /\ FundsRaise("VenueError")
               /\ UNCHANGED polled
       ELSE /\ funds_pc' = after_deposit(k)
            /\ polled' = 0
            /\ UNCHANGED <<steps, funds_exc>>
    /\ UNCHANGED <<position, engine, unit, funds_op, amount0, amount1, maximum_spread_bps, amounts, withdraw_amount, wallet_amount,
                 return_values, elapsed, attempt, background_process, open_position_calls>>

\* A wait loop that never gives up.
wait_for_deposit_without_deadline(snapshot, seen, now) ==
    IF snapshot # seen THEN "break" ELSE "sleep"

\* wait_for_deposit_okx_blocktrading, lines 657-668: one iteration, given the
\* balance the poll saw and the time elapsed since the loop started.
wait_for_deposit_iteration(snapshot, seen, now) ==
    IF snapshot # seen THEN "break"
    ELSE IF now > MaxDeadline THEN "DepositFailed" ELSE "sleep"

\* The clock after `spent` more periods.  The loops only ask whether the
\* deadline has passed, so the times beyond it are folded onto two values.
later(now, spent) ==
    IF now + spent > MaxDeadline + 2 THEN MaxDeadline + 1 ELSE now + spent

\* lines 689-695 and 648-668: one iteration of the wait for deposit k.  The
\* poll takes some time; time.sleep(sleep_time) takes a period.
okx_wait_deposit(k) ==
    /\ funds_pc = Label("okx_wait_deposit", k)
    /\ \/ \E balance \in Balances, spent \in 0 .. 1 :
            LET now == later(elapsed, spent)
                seen == to_token_units(balance)
                outcome == wait_for_deposit_iteration(deposit_snapshot(k), seen, now)
            IN  /\ polled' = seen
                /\ CASE outcome = "break" ->
                          /\ steps' = Ended("ok")
                          /\ return_values' = Returned(Label("deposit", k), "hash")
                          /\ funds_pc' = after_deposit(k)
                          /\ elapsed' = 0
                          /\ UNCHANGED funds_exc
                     [] outcome = "DepositFailed" ->
                          /\ steps' = Ended("DepositFailed")
                          /\ FundsRaise("DepositFailed")
                          /\ elapsed' = now
                          /\ UNCHANGED return_values
                     [] outcome = "sleep" ->
                          /\ elapsed' = later(now, 1)
                          /\ UNCHANGED <<steps, return_values, funds_pc, funds_exc>>
       \/ /\ steps' = Ended("VenueError")
          /\ FundsRaise("VenueError")
          /\ UNCHANGED <<polled, return_values, elapsed>>
    /\ UNCHANGED <<position, engine, unit, funds_op, amount0, amount1, maximum_spread_bps, amounts, withdraw_amount, wallet_amount,
                 attempt, background_process, open_position_calls>>

\* The decision that trades whenever either balance is short, funds or not.
swap_amounts_okx_blocktrading_always_sells(a) ==
    IF /\ a.cex_existing_amount0_decimal >= a.required_amount0_decimal
       /\ a.cex_existing_amount1_decimal >= a.required_amount1_decimal
    THEN "no_swap"
    ELSE "sell"

\* swap_amounts_okx_blocktrading, lines 949-994: the branch taken after the
\* deposit phase.
swap_amounts_okx_blocktrading_branch(a) ==
    IF /\ a.cex_existing_amount0_decimal >= a.required_amount0_decimal
       /\ a.cex_existing_amount1_decimal >= a.required_amount1_decimal
    THEN "no_swap"
    ELSE IF a.cex_existing_amount0_decimal >= a.required_swap_amount_from_token0_decimal
    THEN "sell"
    ELSE IF a.cex_existing_amount1_decimal >= a.required_swap_amount_from_token1_decimal
    THEN "buy"
    ELSE "InsufficientFunds"

\* lines 949-994: decide whether and in which direction to block trade.
okx_decide ==
    /\ funds_pc = "okx_decide"
    /\ LET b == swap_amounts_okx_blocktrading_branch(amounts)
       IN  CASE b = "no_swap" -> funds_pc' = "okx_amounts_3" /\ UNCHANGED funds_exc
             [] b = "sell" -> funds_pc' = "okx_block_trade_sell" /\ UNCHANGED funds_exc
             [] b = "buy" -> funds_pc' = "okx_block_trade_buy" /\ UNCHANGED funds_exc
             [] b = "InsufficientFunds" -> FundsRaise("InsufficientFunds")
    /\ UNCHANGED <<position, engine, unit, funds_op, amount0, amount1, maximum_spread_bps, amounts, withdraw_amount, wallet_amount,
                 return_values, elapsed, polled, attempt, background_process, steps, open_position_calls>>

\* The ways OKXClient.make_single_leg_block_trade ends (client.py 446-577).
BlockTradeOutcomes ==
    {"ok", "BlockTradingNoQuote", "BlockTradingTimeOut", "BlockTradingError"}

\* block_trade_okx_blocktrading, lines 858-897, when make_block_trade raised
\* `raised`: the first except clause is evaluated first and names
\* client.BlockTradingMinimumNotionalSize, which client.py does not define.
block_trade_okx_blocktrading_handler(raised) == "AttributeError"

\* lines 966-988 and 852-897: the block trade in the direction decided.
okx_block_trade(direction) ==
    /\ funds_pc = "okx_block_trade_" \o direction
    /\ \E outcome \in BlockTradeOutcomes :
          /\ steps' = Submitted("block_trade_" \o direction, outcome)
          /\ IF outcome = "ok"
             THEN /\ return_values' = Returned("token_swap", direction)
                  /\ funds_pc' = "okx_amounts_3"
                  /\ UNCHANGED funds_exc
             ELSE /\ FundsRaise(block_trade_okx_blocktrading_handler(outcome))
                  /\ UNCHANGED return_values
    /\ UNCHANGED <<position, engine, unit, funds_op, amount0, amount1, maximum_spread_bps, amounts, withdraw_amount, wallet_amount,
                 elapsed, polled, attempt, background_process, open_position_calls>>

\* check_required_and_existing_amounts, lines 1097-1138: which amount of each
\* token to move; 1 - required / existing < 0 with existing > 0.
check_required_and_existing_amounts(a) ==
    << IF a.required_amount0_decimal > a.cex_existing_amount0_decimal
       THEN "cex_existing_amount0_decimal" ELSE "required_amount0_decimal",
       IF a.required_amount1_decimal > a.cex_existing_amount1_decimal
       THEN "cex_existing_amount1_decimal" ELSE "required_amount1_decimal" >>

\* lines 997-1010: the amounts after the trade and the choice of what to move.
\* The division at lines 1105-1114 fails on an empty CEX balance.
okx_get_amounts_after_trade ==
    /\ funds_pc = "okx_amounts_3"
    /\ \/ \E price \in FundsPrices, cex0 \in SettledBalances, cex1 \in SettledBalances :
            LET a == get_amounts_okx_blocktrading(price, 0, 0, cex0, cex1)
            IN  /\ amounts' = a
                /\ IF cex0 = 0 \/ cex1 = 0
                   THEN FundsRaise("ZeroDivisionError") /\ UNCHANGED withdraw_amount
                   ELSE /\ withdraw_amount' = check_required_and_existing_amounts(a)
                        /\ funds_pc' = "okx_transfer0"
                        /\ UNCHANGED funds_exc
       \/ FundsRaise("VenueError") /\ UNCHANGED <<amounts, withdraw_amount>>
    /\ UNCHANGED <<position, engine, unit, funds_op, amount0, amount1, maximum_spread_bps, wallet_amount, return_values, elapsed,
                 polled, attempt, background_process, steps, open_position_calls>>

\* Response codes of the venue: "0" is success.
ResponseCodes == {"0", "58350"}

\* A transfer whose response is never looked at.
transfer_response_unchecked(code) == "return"

\* transfer_funds_from_sub_to_main_okx_blocktrading, lines 713-721.
transfer_response(code) == IF code # "0" THEN "TransferFailed" ELSE "return"

\* A withdrawal whose response is never looked at.
withdraw_response_unchecked(code) == "wait"

\* withdraw_amounts_okx_blocktrading, lines 798-806.
withdraw_response(code) == IF code # "0" THEN "WithdrawFailed" ELSE "wait"

\* A saga that goes on to the withdrawals after the first transfer.
after_transfer_skips_token1(k) == "okx_wallet"

\* lines 1013-1029: the statement after the transfer of token k.
after_transfer(k) == IF k = 0 THEN "okx_transfer1" ELSE "okx_wallet"

\* lines 1031-1095: the statement after the withdrawal of token k.
after_withdraw(k) == IF k = 0 THEN "okx_withdraw1" ELSE "done"

\* lines 1013-1026 and 697-721: transfer of token k to the main account.
okx_transfer(k) ==
    /\ funds_pc = Label("okx_transfer", k)
    /\ \/ \E code \in ResponseCodes :
            /\ steps' = Submitted(Label("transfer", k), code)
            /\ IF transfer_response(code) = "TransferFailed"
               THEN FundsRaise("TransferFailed") /\ UNCHANGED return_values
               ELSE /\ return_values' = Returned(Label("transfer", k), code)
                    /\ funds_pc' = after_transfer(k)
                    /\ UNCHANGED funds_exc
       \/ /\ steps' = Submitted(Label("transfer", k), "VenueError")
          /\ FundsRaise("VenueError")
          /\ UNCHANGED return_values
    /\ UNCHANGED <<position, engine, unit, funds_op, amount0, amount1, maximum_spread_bps, amounts, withdraw_amount, wallet_amount,
                 elapsed, polled, attempt, background_process, open_position_calls>>

\* line 1029: the wallet balances before the withdrawals.
okx_wallet ==
    /\ funds_pc = "okx_wallet"
    /\ \/ \E w0 \in Deposits, w1 \in Deposits :
            /\ wallet_amount' = <<w0, w1>>
            /\ funds_pc' = "okx_withdraw0"
            /\ UNCHANGED funds_exc
       \/ FundsRaise("VenueError") /\ UNCHANGED wallet_amount
    /\ UNCHANGED <<position, engine, unit, funds_op, amount0, amount1, maximum_spread_bps, amounts, withdraw_amount, return_values,
                 elapsed, polled, attempt, background_process, steps, open_position_calls>>

\* lines 1031-1047 and 776-805: the withdrawal request for token k.
okx_withdraw(k) ==
    /\ funds_pc = Label("okx_withdraw", k)
    /\ \/ \E code \in ResponseCodes :
            /\ steps' = Submitted(Label("withdraw", k),
                                  IF code = "0" THEN "pending" ELSE code)
            /\ IF withdraw_response(code) = "WithdrawFailed"
               THEN FundsRaise("WithdrawFailed") /\ UNCHANGED <<polled, elapsed>>
               ELSE /\ funds_pc' = Label("okx_wait_withdraw", k)
                    /\ polled' = wallet_amount[k + 1]
                    /\ elapsed' = 0
                    /\ UNCHANGED funds_exc
       \/ /\ steps' = Submitted(Label("withdraw", k), "VenueError")
          /\ FundsRaise("VenueError")
          /\ UNCHANGED <<polled, elapsed>>
    /\ UNCHANGED <<position, engine, unit, funds_op, amount0, amount1, maximum_spread_bps, amounts, withdraw_amount, wallet_amount,
                 return_values, attempt, background_process, open_position_calls>>

\* A wait for a withdrawal that never gives up.
wait_for_withdrawal_without_deadline(before, seen, now) ==
    IF before < seen THEN "return" ELSE "sleep"

\* A wait that is satisfied by an unchanged balance as well.
wait_for_withdrawal_not_less(before, seen, now) ==
    IF before <= seen THEN "return"
    ELSE IF now > MaxDeadline THEN "WithdrawTimeout" ELSE "sleep"

\* wait_for_withdrawal_okx_blocktrading, lines 763-774: one iteration, given
\* the wallet balance before, the one seen now and the time elapsed.
wait_for_withdrawal_iteration(before, seen, now) ==
    IF before < seen THEN "return"
    ELSE IF now > MaxDeadline THEN "WithdrawTimeout" ELSE "sleep"

\* lines 806-813 and 763-774: one iteration of the wait for withdrawal k.  The
\* withdrawals at lines 1031-1047 are not inside any try statement (lines
\* 1049-1093 are comments), so a WithdrawTimeout leaves the saga.
okx_wait_withdraw(k) ==
    /\ funds_pc = Label("okx_wait_withdraw", k)
    /\ \/ \E balance \in Balances, spent \in 0 .. 1 :
            LET now == later(elapsed, spent)
                outcome == wait_for_withdrawal_iteration(wallet_amount[k + 1], balance, now)
            IN  /\ polled' = balance
                /\ CASE outcome = "return" ->
                          /\ steps' = Ended("ok")
                          /\ return_values' = Returned(Label("withdraw", k), "0")
                          /\ funds_pc' = after_withdraw(k)
                          /\ elapsed' = 0
                          /\ UNCHANGED funds_exc
                     [] outcome = "WithdrawTimeout" ->
                          /\ steps' = Ended("WithdrawTimeout")
                          /\ elapsed' = now
                          /\ FundsRaise("WithdrawTimeout")
                          /\ UNCHANGED return_values
                     [] outcome = "sleep" ->
                          /\ elapsed' = later(now, 1)
                          /\ UNCHANGED <<steps, return_values, funds_pc, funds_exc>>
       \/ /\ steps' = Ended("VenueError")
          /\ FundsRaise("VenueError")
          /\ UNCHANGED <<polled, return_values, elapsed>>
    /\ UNCHANGED <<position, engine, unit, funds_op, amount0, amount1, maximum_spread_bps, amounts, withdraw_amount, wallet_amount,
                 attempt, background_process, open_position_calls>>

\* ----------------------------------------------------- funds: the DEX swap
\* lines 1178-1183: price, wallet balances and requirements.
dex_get_amounts ==
    /\ funds_pc = "dex_amounts"
    /\ \/ \E price \in FundsPrices, wallet0 \in Balances, wallet1 \in Balances :
            /\ amounts' = get_existing_required_amounts(price, wallet0, wallet1)
            /\ funds_pc' = "dex_decide"
            /\ UNCHANGED funds_exc
       \/ FundsRaise("VenueError") /\ UNCHANGED amounts
    /\ UNCHANGED <<position, engine, unit, funds_op, amount0, amount1, maximum_spread_bps, withdraw_amount, wallet_amount, return_values,
                 elapsed, polled, attempt, background_process, steps, open_position_calls>>

\* swap_amounts_uniswap, lines 1187-1250: what the call does with the amounts.
\* existing >= required + existing / current_price is compared after
\* multiplying both sides by the (positive) price.
swap_amounts_uniswap_branch(a) ==
    IF /\ a.existing_amount0 >= a.required_amount0
       /\ a.existing_amount1 >= a.required_amount1
    THEN "no_swap"
    ELSE IF /\ a.existing_amount0 < a.required_amount0
            /\ a.existing_amount1 < a.required_amount1
    THEN "InsufficientFunds"
    ELSE IF a.existing_amount0 < a.required_amount0
    THEN IF a.existing_amount1 * a.current_price
              >= a.required_amount1 * a.current_price + a.existing_amount1
         THEN "swap_token1_for_token0"
         ELSE "InsufficientFunds"
    ELSE IF a.existing_amount0 * a.current_price
              >= a.required_amount0 * a.current_price + a.existing_amount0
         THEN "swap_token0_for_token1"
         ELSE "InsufficientFunds"

\* lines 1187-1250: no swap, a swap in one direction, or InsufficientFunds.
dex_decide ==
    /\ funds_pc = "dex_decide"
    /\ LET b == swap_amounts_uniswap_branch(amounts)
       IN  CASE b = "no_swap" -> funds_pc' = "done" /\ UNCHANGED funds_exc
             [] b = "InsufficientFunds" -> FundsRaise("InsufficientFunds")
             [] OTHER -> funds_pc' = "dex_swap" /\ UNCHANGED funds_exc
    /\ UNCHANGED <<position, engine, unit, funds_op, amount0, amount1, maximum_spread_bps, amounts, withdraw_amount, wallet_amount,
                 return_values, elapsed, polled, attempt, background_process, steps, open_position_calls>>

\* The ways one execution of swap_token_input's body ends (uniswap.py
\* 669-718): an exception before sendRawTransaction, the receipt, or an
\* exception from wait_for_transaction_receipt after the broadcast.
SwapOutcomes == {"not_sent", "mined", "sent_receipt_failed"}

\* retry_on_exception's wrapper (uniswap.py 34-42) after the body raised in
\* execution number `n` (from 0): the first `retries` executions are retried.
retry_on_exception(n) == IF n < retries THEN "retry" ELSE "raise"

\* line 1253 with uniswap.py 14-46 and 668-718: one execution of
\* swap_token_input under its retry decorator.
dex_swap ==
    /\ funds_pc = "dex_swap"
    /\ \E outcome \in SwapOutcomes :
          /\ steps' = IF outcome = "not_sent" THEN steps
                      ELSE Submitted(swap_amounts_uniswap_branch(amounts), outcome)
          /\ IF outcome = "mined"
             THEN /\ funds_pc' = "dex_receipt"
                  /\ UNCHANGED <<attempt, funds_exc>>
             ELSE IF retry_on_exception(attempt) = "retry"
             THEN /\ attempt' = attempt + 1
                  /\ UNCHANGED <<funds_pc, funds_exc>>
             ELSE /\ FundsRaise("VenueError")
                  /\ UNCHANGED attempt
    /\ UNCHANGED <<position, engine, unit, funds_op, amount0, amount1, maximum_spread_bps, amounts, withdraw_amount, wallet_amount,
                 return_values, elapsed, polled, background_process, open_position_calls>>

\* line 1261: return self.uniswap.w3.eth.getTransactionReceipt(hex).
dex_receipt ==
    /\ funds_pc = "dex_receipt"
    /\ \/ /\ return_values' = Returned("receipt", "1")
          /\ funds_pc' = "done"
          /\ UNCHANGED funds_exc
       \/ FundsRaise("VenueError") /\ UNCHANGED return_values
    /\ UNCHANGED <<position, engine, unit, funds_op, amount0, amount1, maximum_spread_bps, amounts, withdraw_amount, wallet_amount,
                 elapsed, polled, attempt, background_process, steps, open_position_calls>>

\* ------------------------------------------ funds: the withdrawal recovery
\* lines 1155-1160 and 763-774: one iteration of the recovery task's wait.
recovery_wait ==
    /\ funds_pc = "recovery_wait"
    /\ \/ \E balance \in Balances, spent \in 0 .. 1 :
            LET now == later(elapsed, spent)
                outcome == wait_for_withdrawal_iteration(wallet_amount[1], balance, now)
            IN  /\ polled' = balance
                /\ CASE outcome = "return" ->
                          /\ funds_pc' = "recovery_open"
                          /\ elapsed' = now
                          /\ UNCHANGED funds_exc
                     [] outcome = "WithdrawTimeout" ->
                          /\ FundsRaise("WithdrawTimeout")
                          /\ elapsed' = now
                     [] outcome = "sleep" ->
                          /\ elapsed' = later(now, 1)
                          /\ UNCHANGED <<funds_pc, funds_exc>>
       \/ FundsRaise("VenueError") /\ UNCHANGED <<polled, elapsed>>
    /\ UNCHANGED <<position, engine, unit, funds_op, amount0, amount1, maximum_spread_bps, amounts, withdraw_amount, wallet_amount,
                 return_values, attempt, background_process, steps, open_position_calls>>

\* line 1166: self.open_position().  The call is skipped by the lock or ends
\* in calculate_position_range_and_amounts (line 1399).
recovery_open_position ==
    /\ funds_pc = "recovery_open"
    /\ open_position_calls' = open_position_calls + 1
    /\ IF lock_is_engaged(lock)
       THEN funds_pc' = "done" /\ UNCHANGED funds_exc
       ELSE \E e \in calculate_position_range_and_amounts_raises : FundsRaise(e)
    /\ UNCHANGED <<position, engine, unit, funds_op, amount0, amount1, maximum_spread_bps, amounts, withdraw_amount, wallet_amount,
                 return_values, elapsed, polled, attempt, background_process, steps>>

\* The funds function returns, or its exception reaches its caller.
funds_return ==
    /\ funds_pc = "done"
    /\ funds_pc' = "idle"
    /\ funds_op' = "none"
    /\ funds_exc' = "none"
    /\ amounts' = NoAmounts
    /\ withdraw_amount' = <<"none", "none">>
    /\ wallet_amount' = <<0, 0>>
    /\ return_values' = <<>>
    /\ elapsed' = 0
    /\ polled' = 0
    /\ attempt' = 0
    /\ steps' = <<>>
    /\ open_position_calls' = 0
    /\ UNCHANGED <<position, engine, unit, amount0, amount1, maximum_spread_bps, background_process>>

\* The manager the funds functions are exercised on: no position, nobody in a
\* locked section, and a configuration drawn from the bounded sets.
FundsInit ==
    /\ history_file = [exists |-> FALSE, content |-> <<>>]
    /\ confirmed = [i \in 1 .. MaxHistory |-> {}]
    /\ position_history = <<>>
    /\ lock = FALSE
    /\ cex_credentials = TRUE
    /\ burn_on_close = FALSE
    /\ pc = [t \in Callers |-> "idle"]
    /\ fn = [t \in Callers |-> "none"]
    /\ op = [t \in Callers |-> "none"]
    /\ site = [t \in Callers |-> "none"]
    /\ exc = [t \in Callers |-> "none"]
    /\ current_tick = [t \in Callers |-> 0]
    /\ token_id = [t \in Callers |-> 0]
    /\ txs = [t \in Callers |-> <<>>]
    /\ subcalls = [t \in Callers |-> <<>>]
    /\ branch = [t \in Callers |-> "none"]
    /\ funds_at_rest
    /\ amount0 \in Capitals
    /\ amount1 \in Capitals
    /\ maximum_spread_bps \in Spreads
    /\ engine_absent
    /\ unit_at_rest

FundsNext ==
    \/ \E f \in FundsOperations : call_funds(f)
    \/ okx_unwrap
    \/ \E stage \in 1 .. 2 : okx_get_amounts(stage)
    \/ \E k \in 0 .. 1 : okx_deposit(k)
    \/ \E k \in 0 .. 1 : okx_wait_deposit(k)
    \/ okx_decide
    \/ \E direction \in {"sell", "buy"} : okx_block_trade(direction)
    \/ okx_get_amounts_after_trade
    \/ \E k \in 0 .. 1 : okx_transfer(k)
    \/ okx_wallet
    \/ \E k \in 0 .. 1 : okx_withdraw(k)
    \/ \E k \in 0 .. 1 : okx_wait_withdraw(k)
    \/ dex_get_amounts
    \/ dex_decide
    \/ dex_swap
    \/ dex_receipt
    \/ recovery_wait
    \/ recovery_open_position
    \/ funds_return

FundsSpec == FundsInit /\ [][FundsNext]_vars

\* An iteration of one of the wait loops.
wait_iteration ==
    \/ \E k \in 0 .. 1 : okx_wait_deposit(k)
    \/ \E k \in 0 .. 1 : okx_wait_withdraw(k)
    \/ recovery_wait

\* The wait loops keep iterating: the interpreter goes on executing a loop
\* that is under way, and time.sleep returns.
FundsFairSpec == FundsInit /\ [][FundsNext]_vars /\ WF_vars(wait_iteration)

\* ------------------------------------------------------------------ claims
\* The statements of a decorated function's body.
BodyLabels == {"open_calculate", "close_check", "close_decrease", "close_collect",
               "close_unwrap", "close_burn", "close_store",
               "update_check", "update_refresh", "update_compare"}

\* Caller t is inside the body of a decorated function: at one of its
\* statements, or inside a call update_position's body made.
InBody(t) == pc[t] \in BodyLabels \/ site[t] # "none"

\* The step being taken is a step of caller t.
Acts(t) == <<pc[t], fn[t], site[t]>>' # <<pc[t], fn[t], site[t]>>

\* Caller t is about to leave the wrapper of the operation it called.
Exiting(t, f) == pc[t] = "lock_release" /\ site[t] = "none" /\ op[t] = f

AtMostOneBodyExecuting ==
    Cardinality({t \in Callers : InBody(t)}) <= 1

\* C3: a call that finds the lock engaged returns at once with the skipped
\* outcome: it enters no body, makes no venue call, and leaves the lock,
\* position_history and the history file as they were.
SkippedCallHasNoEffect ==
    [][\A t \in Callers :
         (pc[t] = "lock_check" /\ lock /\ Acts(t)) =>
            /\ IF site[t] = "none"
               THEN pc'[t] = "idle"
               ELSE subcalls'[t] = Append(subcalls[t], <<fn[t], "skipped">>)
            /\ pc'[t] \notin BodyLabels \cup {"lock_engage"}
            /\ txs'[t] \in {txs[t], <<>>}
            /\ confirmed' = confirmed
            /\ lock' = lock
            /\ position_history' = position_history
            /\ history_file' = history_file]_vars

\* C3 case: a caller's close_position was skipped because another caller had
\* engaged the lock and is in the middle of its own close.
CloseSkippedWhileOtherCloses ==
    \E t \in Callers, u \in Callers :
        /\ t # u
        /\ subcalls[t] = << <<"close_position", "skipped">> >>
        /\ pc[u] = "close_collect"
        /\ lock

\* C4: when a call that engaged the lock leaves its wrapper, by return or by
\* exception, the lock is free in the next state; and the lock is never
\* engaged without a caller that still has its release ahead of it.
LockFreeOnExit ==
    /\ [](lock => \E t \in Callers : InBody(t) \/ pc[t] = "lock_release")
    /\ [][\A t \in Callers :
            (pc[t] = "lock_release" /\ Acts(t)) => ~lock']_vars

\* C4 case: a close_position that engaged the lock was left by an exception
\* of a venue call, and the lock is free.
LockFreeAfterRaisingClose ==
    \E t \in Callers :
        /\ subcalls[t] = << <<"close_position", "raised">> >>
        /\ "decrease" \in {txs[t][i] : i \in 1 .. Len(txs[t])}
        /\ ~lock

\* C5: update_position called while the last record is not open delegates to
\* open_position, and that open is executed, not skipped: it returns having
\* submitted a mint, and the last record is open.
DelegatedOpenExecutes ==
    \A t \in Callers :
        (Exiting(t, "update_position") /\ branch[t] = "delegate") =>
            /\ subcalls[t] = << <<"open_position", "returned">> >>
            /\ "mint" \in {txs[t][i] : i \in 1 .. Len(txs[t])}
            /\ Last(position_history).is_open

\* C6: an update_position that found the tick outside the range, in which no
\* venue step failed and while no other caller was active, made exactly one
\* close followed by exactly one open with one mint, and left a new last
\* record open.
RebalanceClosesThenOpens ==
    \A t \in Callers :
        ( /\ Exiting(t, "update_position")
          /\ branch[t] = "rebalance"
          /\ exc[t] # "VenueError"
          /\ \A u \in Callers \ {t} : pc[u] = "idle" /\ ~InBody(u)
          /\ \A i \in 1 .. Len(subcalls[t]) : subcalls[t][i][2] # "skipped" ) =>
            /\ subcalls[t] = << <<"close_position", "returned">>,
                                <<"open_position", "returned">> >>
            /\ Cardinality({i \in 1 .. Len(txs[t]) : txs[t][i] = "mint"}) = 1
            /\ Last(position_history).is_open

ClosingInFlight(id) ==
    \E t \in Callers :
        pc[t] \in {"close_unwrap", "close_burn", "close_store"} /\ token_id[t] = id

\* C8: a record has is_open = False exactly when decrease-liquidity and
\* collect-fees have both been confirmed for it by a close_position that is
\* no longer running, whatever became of that call's unwrap and burn.
ClosedExactlyWhenConfirmed ==
    \A i \in 1 .. Len(position_history) :
        LET r == position_history[i]
            both == {"decrease", "collect"} \subseteq confirmed[r.tokenID]
        IN  /\ ~r.is_open => both
            /\ (both /\ ~ClosingInFlight(r.tokenID)) => ~r.is_open

\* The fields update_position may overwrite, blanked.
WithoutLiveFields(r) ==
    [r EXCEPT !.tick_current = 0, !.price_current = 0, !.last_update = 0]

\* C9: an update_position that reads a tick within [tick_lower, tick_upper],
\* bounds included, overwrites only tick_current, price_current and
\* last_update of the last record, stores the history, makes no venue
\* transaction and no sub-call, and ends without touching the lock.
InRangeUpdateOnlyRefreshes ==
    /\ [](\A t \in Callers :
            (pc[t] = "lock_release" /\ branch[t] = "in_range") =>
                txs[t] = <<>> /\ subcalls[t] = <<>> /\ exc[t] = "none")
    /\ [][\A t \in Callers :
            /\ (pc[t] = "update_refresh" /\ pc'[t] = "update_compare") =>
                  /\ Len(position_history') = Len(position_history)
                  /\ \A i \in 1 .. Len(position_history) - 1 :
                        position_history'[i] = position_history[i]
                  /\ WithoutLiveFields(Last(position_history')) =
                        WithoutLiveFields(Last(position_history))
                  /\ Last(position_history').tick_current = current_tick'[t]
                  /\ history_file' = [exists |-> TRUE, content |-> position_history']
                  /\ confirmed' = confirmed
            /\ ( /\ pc[t] = "update_compare" /\ Acts(t)
                 /\ Last(position_history).tick_lower <= current_tick[t]
                 /\ current_tick[t] <= Last(position_history).tick_upper ) =>
                  /\ pc'[t] = "lock_release"
                  /\ branch'[t] = "in_range"
                  /\ txs'[t] = <<>> /\ subcalls'[t] = <<>>
                  /\ lock' = lock
                  /\ confirmed' = confirmed
                  /\ position_history' = position_history
                  /\ history_file' = history_file]_vars

\* C9 case: an update_position that read the tick standing on the upper bound
\* has refreshed the record and is returning.
InRangeUpdateAtUpperBound ==
    \E t \in Callers :
        /\ Exiting(t, "update_position")
        /\ branch[t] = "in_range"
        /\ Last(position_history).tick_current = Last(position_history).tick_upper
        /\ Last(position_history).last_update \in Times
        /\ history_file.content = position_history

\* C10: close_position called with no open position (the last record closed,
\* or the history empty) returns normally having made no venue transaction.
CloseWithoutOpenPositionReturns ==
    \A t \in Callers :
        ( /\ Exiting(t, "close_position")
          /\ branch[t] \in {"no_open_position", "empty_history"} ) =>
            exc[t] = "none" /\ txs[t] = <<>>

\* ----------------------------------------------------- claims on the funds
\* The funds function `f` has come to its end (before its caller goes on).
FundsEnded(f) == funds_op = f /\ funds_pc = "done"

\* The result of the venue step submitted last ("none" before any).
LastResult == IF steps = <<>> THEN "none" ELSE steps[Len(steps)].result

\* The names of the venue steps submitted so far, in order.
StepNames == [i \in DOMAIN steps |-> steps[i].step]

\* C11: a withdrawal wait that times out inside swap_amounts_okx_blocktrading
\* is not fatal: the saga schedules the background recovery task and returns
\* normally with a marker of the partial result.
WithdrawTimeoutSchedulesRecovery ==
    (FundsEnded("swap_amounts_okx_blocktrading") /\ LastResult = "WithdrawTimeout")
        => /\ funds_exc = "none"
           /\ background_process
           /\ \E i \in DOMAIN return_values : return_values[i].kind = "WithdrawTimeout"

\* C12: the recovery task calls open_position once, and only after a poll
\* of its wait saw the wallet balance above the one it was handed; when its
\* deadline passes first, WithdrawTimeout ends it with no call made.
RecoveryOpensOnceAfterIncrease ==
    funds_op = "handle_wait_for_withdrawal_okx_blocktrading_exception"
        => /\ open_position_calls \in 0 .. 1
           /\ open_position_calls = 1 <=>
                  (funds_pc = "done" /\ funds_exc \in calculate_position_range_and_amounts_raises
                                     /\ polled > wallet_amount[1])
           /\ funds_pc = "recovery_open" => polled > wallet_amount[1]
           /\ funds_exc = "WithdrawTimeout"
                  => /\ open_position_calls = 0
                     /\ polled <= wallet_amount[1]
                     /\ elapsed > MaxDeadline

RecoveryOpenedPosition ==
    /\ FundsEnded("handle_wait_for_withdrawal_okx_blocktrading_exception")
    /\ open_position_calls = 1
    /\ polled > wallet_amount[1]

\* The orders in which a saga that runs to its end submits its venue steps.
SagaOrders ==
    { deposits \o trade \o <<"transfer0", "transfer1", "withdraw0", "withdraw1">> :
        deposits \in {<<>>, <<"deposit0">>, <<"deposit1">>, <<"deposit0", "deposit1">>},
        trade \in {<<>>, <<"block_trade_sell">>, <<"block_trade_buy">>} }

\* The entry of return_values a step is recorded as.
RecordedAs(name) ==
    IF name \in {"block_trade_sell", "block_trade_buy"} THEN "token_swap" ELSE name

\* C13: the saga submits its venue steps in the order deposit of token0,
\* deposit of token1 (those it makes), at most one block trade, transfer of
\* token0, of token1, withdrawal of token0, of token1; a withdrawal is only
\* submitted after both transfers were answered with code "0"; and a saga
\* that returns has recorded one value per step in that order.
SagaStepsInOrder ==
    funds_op = "swap_amounts_okx_blocktrading"
        => /\ \E order \in SagaOrders :
                /\ Len(steps) <= Len(order)
                /\ \A i \in DOMAIN steps : steps[i].step = order[i]
           /\ \A i \in DOMAIN steps :
                steps[i].step \in {"withdraw0", "withdraw1"}
                    => \E j \in 1 .. i - 1, l \in 1 .. i - 1 :
                          /\ steps[j] = [step |-> "transfer0", result |-> "0"]
                          /\ steps[l] = [step |-> "transfer1", result |-> "0"]
           /\ (funds_pc = "done" /\ funds_exc = "none")
                => /\ <<>> \o StepNames \in SagaOrders
                   /\ Len(return_values) = Len(steps)
                   /\ \A i \in DOMAIN steps :
                        return_values[i].kind = RecordedAs(steps[i].step)

SagaWithEveryStepReturned ==
    /\ FundsEnded("swap_amounts_okx_blocktrading")
    /\ funds_exc = "none"
    /\ Len(steps) = 7

BothCovered(a) ==
    /\ a.cex_existing_amount0_decimal >= a.required_amount0_decimal
    /\ a.cex_existing_amount1_decimal >= a.required_amount1_decimal
Token0Covers(a) ==
    a.cex_existing_amount0_decimal >= a.required_amount0_decimal + a.diff_amount1_in_token0
Token1Covers(a) ==
    a.cex_existing_amount1_decimal >= a.required_amount1_decimal + a.diff_amount0_in_token1

DecisionTaken ==
    /\ funds_pc = "okx_decide"
    /\ funds_pc' # funds_pc
    /\ steps' = steps
    /\ return_values' = return_values
    /\ IF BothCovered(amounts)
       THEN funds_pc' = "okx_amounts_3" /\ funds_exc' = "none"
       ELSE IF Token0Covers(amounts)
       THEN funds_pc' = "okx_block_trade_sell" /\ funds_exc' = "none"
       ELSE IF Token1Covers(amounts)
       THEN funds_pc' = "okx_block_trade_buy" /\ funds_exc' = "none"
       ELSE funds_pc' = "done" /\ funds_exc' = "InsufficientFunds"

TradeInDirection(direction) ==
    /\ funds_pc = "okx_block_trade_" \o direction
    /\ steps' = Append(steps, steps'[Len(steps')])
    /\ steps'[Len(steps')].step = "block_trade_" \o direction

\* C15: after the deposits the saga takes one of four branches: no trade when
\* both CEX balances cover their requirements; else one 'sell' trade when the
\* token0 balance covers its requirement plus the token1 deficit in token0;
\* else one 'buy' trade when the token1 balance covers its requirement plus
\* the token0 deficit in token1; else InsufficientFunds with no trade,
\* transfer or withdrawal.
SagaTakesOneOfFourBranches ==
    /\ [][ /\ funds_pc = "okx_decide" => DecisionTaken
           /\ \A direction \in {"sell", "buy"} :
                funds_pc = "okx_block_trade_" \o direction => TradeInDirection(direction)
         ]_vars
    /\ [](funds_op = "swap_amounts_okx_blocktrading"
            => /\ Cardinality({i \in DOMAIN steps :
                     steps[i].step \in {"block_trade_sell", "block_trade_buy"}}) <= 1
               /\ funds_exc = "InsufficientFunds"
                    => \A i \in DOMAIN steps : steps[i].step \in {"deposit0", "deposit1"})

SagaDecidedToBuy ==
    /\ funds_pc = "okx_block_trade_buy"
    /\ ~BothCovered(amounts)
    /\ ~Token0Covers(amounts)
    /\ Token1Covers(amounts)

\* The swaps broadcast by the call of swap_amounts_uniswap under way.
SwapsSubmitted == Len(steps)

\* C16: swap_amounts_uniswap, with required_i = floor(1.01 * amount_i):
\* returns None without a swap when both wallet balances are at least what
\* is required, raises InsufficientFunds without a swap when both are below,
\* and in every case submits at most one swap per call.
UniswapSubmitsAtMostOneSwap ==
    (funds_op = "swap_amounts_uniswap" /\ funds_pc \notin {"dex_amounts"} /\ amounts # NoAmounts)
        => LET enough0 == amounts.existing_amount0 >= (amount0 * 101) \div 100
               enough1 == amounts.existing_amount1 >= (amount1 * 101) \div 100
           IN  /\ (enough0 /\ enough1)
                    => /\ SwapsSubmitted = 0
                       /\ funds_pc = "done" => (funds_exc = "none" /\ return_values = <<>>)
               /\ (~enough0 /\ ~enough1)
                    => /\ SwapsSubmitted = 0
                       /\ funds_pc = "done" => funds_exc = "InsufficientFunds"
               /\ SwapsSubmitted <= 1

\* The surplus of one token over its requirement, valued in the other token
\* at the current price (token1 per token0), covers the other's shortfall.
Token1SurplusCovers(a) ==
    a.existing_amount1 - a.required_amount1
        >= (a.required_amount0 - a.existing_amount0) * a.current_price
Token0SurplusCovers(a) ==
    (a.existing_amount0 - a.required_amount0) * a.current_price
        >= a.required_amount1 - a.existing_amount1

\* C17: in swap_amounts_uniswap, when exactly one wallet balance is below
\* its requirement, a swap out of the other token is submitted exactly when
\* that token's surplus over its own requirement, valued at the current
\* price, covers the shortfall; otherwise InsufficientFunds is raised.
UniswapSwapsWhenSurplusCovers ==
    [][ funds_pc = "dex_decide"
          => LET a == amounts
                 short0 == a.existing_amount0 < a.required_amount0
                 short1 == a.existing_amount1 < a.required_amount1
             IN  /\ (short0 /\ ~short1)
                      => IF Token1SurplusCovers(a)
                         THEN funds_pc' = "dex_swap"
                         ELSE funds_exc' = "InsufficientFunds"
                 /\ (short1 /\ ~short0)
                      => IF Token0SurplusCovers(a)
                         THEN funds_pc' = "dex_swap"
                         ELSE funds_exc' = "InsufficientFunds"
      ]_vars

\* C18: a primary block trade that gets no quote does not fail the saga: the
\* trade is retried once on the alternate pairing, followed by one swap
\* between the stable coins, and the saga goes on to the transfers; a quote
\* timeout or a trade error is not retried and ends in BlocktradeFailed.
NoQuoteRoutesThroughAlternatePair ==
    funds_op = "swap_amounts_okx_blocktrading"
        => \A i \in DOMAIN steps :
              /\ steps[i].result = "BlockTradingNoQuote"
                    => /\ funds_exc = "none"
                       /\ funds_pc = "done"
                            => /\ Len(steps) >= i + 2
                               /\ steps[i + 1].step = "block_trade_alternate"
                               /\ steps[i + 2].step = "swap_stable"
              /\ steps[i].result \in {"BlockTradingTimeOut", "BlockTradingError"}
                    => /\ i = Len(steps)
                       /\ funds_exc = "BlocktradeFailed"

\* The step of token k at the statement `stem` submits to the venue and the
\* venue answers (it does not raise).
Answered(stem, k) ==
    /\ funds_pc = Label(stem, k)
    /\ Len(steps') = Len(steps) + 1
    /\ steps'[Len(steps')].result # "VenueError"

\* C19: a transfer answered with a code other than "0" raises
\* TransferFailed, a withdrawal request answered with a code other than "0"
\* raises WithdrawFailed before the wallet is polled; with code "0" the step
\* goes on and returns the venue's response.
ResponseCodeDecidesStep ==
    [][ \A k \in 0 .. 1 :
          /\ Answered("okx_transfer", k)
                => IF steps'[Len(steps')].result # "0"
                   THEN /\ funds_exc' = "TransferFailed"
                        /\ funds_pc' = "done"
                        /\ return_values' = return_values
                   ELSE /\ funds_exc' = "none"
                        /\ funds_pc' # "done"
                        /\ return_values' =
                             Append(return_values, [kind |-> Label("transfer", k), code |-> "0"])
          /\ Answered("okx_withdraw", k)
                => IF steps'[Len(steps')].result # "pending"
                   THEN /\ funds_exc' = "WithdrawFailed"
                        /\ funds_pc' = "done"
                        /\ polled' = polled
                        /\ elapsed' = elapsed
                        /\ return_values' = return_values
                   ELSE /\ funds_exc' = "none"
                        /\ funds_pc' = Label("okx_wait_withdraw", k)
                        /\ return_values' = return_values
          /\ (funds_pc = Label("okx_wait_withdraw", k) /\ funds_pc' # funds_pc
                                                       /\ funds_exc' = "none")
                => return_values' =
                     Append(return_values, [kind |-> Label("withdraw", k), code |-> "0"])
      ]_vars

SecondWithdrawalRejected ==
    /\ FundsEnded("swap_amounts_okx_blocktrading")
    /\ funds_exc = "WithdrawFailed"
    /\ steps[Len(steps)].step = "withdraw1"
    /\ return_values[Len(return_values)] = [kind |-> "withdraw0", code |-> "0"]

\* One iteration of the wait for the deposit of token k: it returns on a
\* poll that differs from the snapshot, raises DepositFailed past the
\* deadline on an unchanged poll, stays on an unchanged poll otherwise, or
\* the poll itself raises.
DepositWaitIteration(k) ==
    funds_pc = Label("okx_wait_deposit", k)
        => \/ /\ funds_pc' = after_deposit(k)
              /\ funds_exc' = "none"
              /\ polled' # deposit_snapshot(k)
           \/ /\ funds_pc' = "done"
              /\ funds_exc' = "DepositFailed"
              /\ polled' = deposit_snapshot(k)
              /\ elapsed' > MaxDeadline
           \/ /\ funds_pc' = funds_pc
              /\ funds_exc' = "none"
              /\ polled' = deposit_snapshot(k)
              /\ elapsed' > elapsed
              /\ elapsed' <= MaxDeadline + 1
           \/ /\ funds_pc' = "done"
              /\ funds_exc' = "VenueError"

\* C20: wait_for_deposit_okx_blocktrading always terminates: it returns
\* only after a poll has seen a CEX balance different from the snapshot, and
\* it raises DepositFailed when the deadline has passed with every poll
\* unchanged.
DepositWaitTerminates ==
    /\ (funds_pc = "okx_wait_deposit0") ~> (funds_pc # "okx_wait_deposit0")
    /\ (funds_pc = "okx_wait_deposit1") ~> (funds_pc # "okx_wait_deposit1")
    /\ [][DepositWaitIteration(0) /\ DepositWaitIteration(1)]_vars

DepositWaitTimedOut ==
    /\ FundsEnded("swap_amounts_okx_blocktrading")
    /\ funds_exc = "DepositFailed"
    /\ steps[Len(steps)].step = "deposit1"
    /\ polled = deposit_snapshot(1)
    /\ elapsed > MaxDeadline

\* One iteration of the wait for the withdrawal of token k inside the saga:
\* it returns on a poll above the balance read before the withdrawal, raises
\* WithdrawTimeout past the deadline on a poll that is not above it, stays
\* on such a poll otherwise, or the poll itself raises.
WithdrawWaitIteration(k) ==
    funds_pc = Label("okx_wait_withdraw", k)
        => \/ /\ funds_pc' = after_withdraw(k)
              /\ funds_exc' = "none"
              /\ polled' > wallet_amount[k + 1]
           \/ /\ funds_pc' = "done"
              /\ funds_exc' = "WithdrawTimeout"
              /\ polled' <= wallet_amount[k + 1]
              /\ elapsed' > MaxDeadline
           \/ /\ funds_pc' = funds_pc
              /\ funds_exc' = "none"
              /\ polled' <= wallet_amount[k + 1]
              /\ elapsed' > elapsed
              /\ elapsed' <= MaxDeadline + 1
           \/ /\ funds_pc' = "done"
              /\ funds_exc' = "VenueError"
              /\ after_withdraw(k) # "done" \/ steps'[Len(steps')].result = "VenueError"

\* The same for the wait of the recovery task.
RecoveryWaitIteration ==
    funds_pc = "recovery_wait"
        => \/ /\ funds_pc' = "recovery_open"
              /\ funds_exc' = "none"
              /\ polled' > wallet_amount[1]
           \/ /\ funds_pc' = "done"
              /\ funds_exc' = "WithdrawTimeout"
              /\ polled' <= wallet_amount[1]
              /\ elapsed' > MaxDeadline
           \/ /\ funds_pc' = funds_pc
              /\ funds_exc' = "none"
              /\ polled' <= wallet_amount[1]
              /\ elapsed' > elapsed
           \/ /\ funds_pc' = "done"
              /\ funds_exc' = "VenueError"

\* C21: wait_for_withdrawal_okx_blocktrading always terminates: it returns
\* only after a poll has seen the wallet balance of the watched token
\* strictly above the balance before the withdrawal, and it raises
\* WithdrawTimeout when the deadline has passed without such a poll.
WithdrawWaitTerminates ==
    /\ []<>(funds_pc \notin {"okx_wait_withdraw0", "okx_wait_withdraw1", "recovery_wait"})
    /\ [][ /\ WithdrawWaitIteration(0)
           /\ WithdrawWaitIteration(1)
           /\ RecoveryWaitIteration ]_vars

WithdrawWaitTimedOut ==
    /\ FundsEnded("swap_amounts_okx_blocktrading")
    /\ funds_exc = "WithdrawTimeout"
    /\ steps[Len(steps)].step = "withdraw0"
    /\ polled = wallet_amount[1]
    /\ elapsed > MaxDeadline

\* C22: the saga deposits a token at the CEX only when the wallet holds more
\* of it than the position will consume: a token whose wallet balance does
\* not exceed its required amount is not deposited.
DepositsOnlyTheSurplus ==
    /\ funds_pc = "okx_wait_deposit0" => amounts.existing_amount0 > amounts.required_amount0
    /\ funds_pc = "okx_wait_deposit1" => amounts.existing_amount1 > amounts.required_amount1

\* ------------------------------------------------- claims on the history
\* No caller is inside one of the three operations.
NoOperationInFlight == \A t \in Callers : pc[t] = "idle"

\* C23: whenever no operation is in flight, the history file holds the
\* in-memory position_history: what a restart would load is the list in
\* memory, because every operation that changed the list rewrote the file
\* before it returned.
FileHoldsHistoryAtRest ==
    NoOperationInFlight => load_position_history(history_file) = position_history

ClosedWithBurnAtRest ==
    /\ NoOperationInFlight
    /\ position_history # <<>>
    /\ Last(position_history).tx_burn = "tx"
    /\ ~Last(position_history).is_open
    /\ history_file.content = position_history


\* ------------------------------------------------ the engine and its API
\* trading_engine/engine.py and trading_engine/api.py: the endpoints that test
\* engine.running before they act.
Endpoints == {"start", "stop", "update-engine", "stats"}

\* A constructor that leaves the flag as line 72 set it.
running_at_construction_never(h) == FALSE

\* TradingEngine.__init__, lines 95-97: the flag follows the last record.
running_at_construction(h) == Len(h) > 0 /\ Last(h).is_open

\* The process before app.py constructs the engine: the history file is as a
\* previous run left it (or absent), the manager's list is the empty one of
\* web_manager.py line 191, and the flag is the False of engine.py line 72.
EngineInit ==
    /\ \E n \in 0 .. MaxHistory, open \in BOOLEAN, present \in BOOLEAN :
         /\ n = 0 => ~open
         /\ n > 0 => present
         /\ history_file = [exists |-> present, content |-> StoredHistory(n, open)]
         /\ confirmed = [i \in 1 .. MaxHistory |->
                           IF i < n \/ (i = n /\ ~open)
                           THEN {"decrease", "collect"} ELSE {}]
    /\ position_history = <<>>
    /\ lock = FALSE
    /\ cex_credentials \in BOOLEAN
    /\ burn_on_close \in BOOLEAN
    /\ pc = [t \in Callers |-> "idle"]
    /\ fn = [t \in Callers |-> "none"]
    /\ op = [t \in Callers |-> "none"]
    /\ site = [t \in Callers |-> "none"]
    /\ exc = [t \in Callers |-> "none"]
    /\ current_tick = [t \in Callers |-> 0]
    /\ token_id = [t \in Callers |-> 0]
    /\ txs = [t \in Callers |-> <<>>]
    /\ subcalls = [t \in Callers |-> <<>>]
    /\ branch = [t \in Callers |-> "none"]
    /\ funds_at_rest
    /\ amount0 = 0
    /\ amount1 = 0
    /\ maximum_spread_bps = 0
    /\ running = FALSE
    /\ serving = FALSE
    /\ request = [t \in Callers |-> "none"]
    /\ response = [t \in Callers |-> "none"]
    /\ unit_at_rest

\* TradingEngine.__init__: Web3Manager.__init__ loads the history inside its
\* try/except (web_manager.py lines 290-295), then lines 94-98 set the flag.
\* The constructor calls none of the manager's operations.
TradingEngine_init ==
    /\ ~serving
    /\ position_history' = load_position_history(history_file)
    /\ running' = running_at_construction(position_history')
    /\ serving' = TRUE
    /\ UNCHANGED <<lock, history_file, cex_credentials, burn_on_close, venue, frames,
                   locals, observed, funds, unit, request, response>>

\* A request for one of the endpoints reaches its handler.
api_request(t, e) ==
    /\ serving
    /\ request[t] = "none"
    /\ request' = [request EXCEPT ![t] = e]
    /\ UNCHANGED <<position, funds, unit, running, serving, response>>

\* The handler of request[t] is at its first statement.
handler_entry(t, e) ==
    /\ request[t] = e
    /\ response[t] = "none"
    /\ pc[t] = "idle"

\* The handler returns `message` without having called the engine.
api_returns(t, message) ==
    /\ response' = [response EXCEPT ![t] = message]
    /\ UNCHANGED <<position, funds, unit, running, serving, request>>

\* An engine method calls operation f of the manager.
engine_calls(t, f) ==
    /\ pc' = [pc EXCEPT ![t] = "lock_check"]
    /\ fn' = [fn EXCEPT ![t] = f]
    /\ op' = [op EXCEPT ![t] = f]
    /\ UNCHANGED <<shared, venue, site, exc, locals, observed, funds, unit, engine>>

\* A /start handler that starts the engine whatever the flag says.
start_engine_rejects_never(r) == FALSE

\* start_engine, api.py line 90: `if self.engine.running:`.
start_engine_rejects(r) == r

\* A guard that lets every request through.
engine_not_running_never(r) == FALSE

\* stop_engine, engine_stats and update_engine, api.py lines 134, 168, 188:
\* `if not self.engine.running:`.
engine_not_running(r) == ~r

\* start_engine, api.py lines 88-104, into engine.start, engine.py line 102.
api_start(t) ==
    /\ handler_entry(t, "start")
    /\ IF start_engine_rejects(running)
       THEN api_returns(t, "already running")
       ELSE engine_calls(t, "open_position")

\* stop_engine, api.py lines 132-139, into engine.stop, engine.py line 110.
api_stop(t) ==
    /\ handler_entry(t, "stop")
    /\ IF engine_not_running(running)
       THEN api_returns(t, "not running")
       ELSE engine_calls(t, "close_position")

\* update_engine, api.py lines 186-193: the handler's own test of the flag.
api_update_engine(t) ==
    /\ handler_entry(t, "update-engine")
    /\ IF engine_not_running(running)
       THEN api_returns(t, "not running")
       ELSE /\ pc' = [pc EXCEPT ![t] = "engine_update_engine"]
            /\ UNCHANGED <<shared, venue, fn, op, site, exc, locals, observed, funds, unit,
                           engine>>

\* TradingEngine.update_engine, engine.py lines 117-125: the flag is read again;
\* a flag found False makes the method return {} and the handler answer with
\* success.
engine_update_engine(t) ==
    /\ pc[t] = "engine_update_engine"
    /\ IF running
       THEN engine_calls(t, "update_position")
       ELSE /\ pc' = [pc EXCEPT ![t] = "idle"]
            /\ response' = [response EXCEPT ![t] = "success"]
            /\ UNCHANGED <<shared, venue, fn, op, site, exc, locals, observed, funds, unit,
                           running, serving, request>>

\* engine_stats, api.py lines 167-182: the last record is read when the flag
\* is set; an empty list makes the subscript raise and Flask answer 500.
api_stats(t) ==
    /\ handler_entry(t, "stats")
    /\ IF engine_not_running(running)
       THEN api_returns(t, "not running")
       ELSE api_returns(t, IF Len(position_history) = 0 THEN "error" ELSE "success")

\* The manager's operation has returned or raised into the engine method:
\* engine.py lines 104, 112 and 122 read position_history[-1].  An exception,
\* the operation's or the subscript's IndexError, propagates to the handler's
\* `except Exception` (api.py lines 117, 152, 206).
engine_return(t) ==
    /\ pc[t] = "engine_return"
    /\ exc' = [exc EXCEPT ![t] = "none"]
    /\ IF exc[t] # "none" \/ Len(position_history) = 0
       THEN /\ pc' = [pc EXCEPT ![t] = "idle"]
            /\ response' = [response EXCEPT ![t] = "error"]
       ELSE IF request[t] = "update-engine"
       THEN /\ pc' = [pc EXCEPT ![t] = "idle"]
            /\ response' = [response EXCEPT ![t] = "success"]
       ELSE /\ pc' = [pc EXCEPT ![t] = "engine_set_running"]
            /\ UNCHANGED response
    /\ UNCHANGED <<shared, venue, fn, op, site, locals, observed, funds, unit, running,
                   serving, request>>

\* engine.py lines 105 and 113: the flag is written, then the method returns
\* the last record and the handler answers with success.
engine_set_running(t) ==
    /\ pc[t] = "engine_set_running"
    /\ running' = (request[t] = "start")
    /\ pc' = [pc EXCEPT ![t] = "idle"]
    /\ response' = [response EXCEPT ![t] = "success"]
    /\ UNCHANGED <<shared, venue, fn, op, site, exc, locals, observed, funds, unit,
                   serving, request>>

\* The handler's return value is sent; the thread serves its next request.
api_respond(t) ==
    /\ response[t] # "none"
    /\ request' = [request EXCEPT ![t] = "none"]
    /\ response' = [response EXCEPT ![t] = "none"]
    /\ UNCHANGED <<position, funds, unit, running, serving>>

EngineNext ==
    \/ TradingEngine_init
    \/ \E t \in Callers, e \in Endpoints : api_request(t, e)
    \/ \E t \in Callers : api_start(t)
    \/ \E t \in Callers : api_stop(t)
    \/ \E t \in Callers : api_update_engine(t)
    \/ \E t \in Callers : engine_update_engine(t)
    \/ \E t \in Callers : api_stats(t)
    \/ \E t \in Callers : engine_return(t)
    \/ \E t \in Callers : engine_set_running(t)
    \/ \E t \in Callers : api_respond(t)
    \/ \E t \in Callers : lock_check(t)
    \/ \E t \in Callers : lock_engage(t)
    \/ \E t \in Callers : lock_release(t)
    \/ \E t \in Callers : open_position_calculate(t)
    \/ \E t \in Callers : close_position_check(t)
    \/ \E t \in Callers : close_position_decrease_liquidity(t)
    \/ \E t \in Callers : close_position_collect_fees(t)
    \/ \E t \in Callers : close_position_unwrap_weth(t)
    \/ \E t \in Callers : close_position_burn_token(t)
    \/ \E t \in Callers : close_position_store(t)
    \/ \E t \in Callers : update_position_check(t)
    \/ \E t \in Callers : update_position_refresh(t)
    \/ \E t \in Callers : update_position_compare(t)

EngineSpec == EngineInit /\ [][EngineNext]_vars

\* C24: construction resumes from the history file.  The step that constructs
\* the engine ends with the API served; when the file exists and its last
\* record is open, the manager's history is the file's content with that
\* record last and engine.running is True; when the file is missing, the
\* history is empty and engine.running is False; in both cases the step calls
\* no operation of the manager and submits no transaction to the venue.
StartupResumesFromHistory ==
    [][~serving =>
         /\ serving'
         /\ (/\ history_file.exists
             /\ Len(history_file.content) > 0
             /\ Last(history_file.content).is_open)
            => /\ running'
               /\ position_history' = history_file.content
               /\ Last(position_history').is_open
         /\ ~history_file.exists => (position_history' = <<>> /\ ~running')
         /\ \A t \in Callers : pc'[t] = "idle" /\ txs'[t] = <<>>
         /\ confirmed' = confirmed
         /\ history_file' = history_file]_vars

\* The engine has just been constructed over a file whose last record is
\* open.
EngineResumedRunning ==
    /\ serving
    /\ running
    /\ \A t \in Callers : pc[t] = "idle" /\ request[t] = "none"
    /\ history_file.exists
    /\ position_history = history_file.content
    /\ Len(position_history) > 0
    /\ Last(position_history).is_open
    /\ Last(position_history).last_update = 0

\* The handler of caller t takes a step.
HandlerActs(t) == response'[t] # response[t] \/ pc'[t] # pc[t]

\* C28: the control plane's guards.  A /stop, /update-engine or /stats handler
\* that runs while engine.running is False answers 'not running', and a /start
\* handler that runs while engine.running is True answers 'already running';
\* the rejecting step calls no engine method (the caller stays outside the
\* manager and nothing of the manager, the venue or the file changes) and
\* leaves engine.running as it was; a rejected request calls nothing until its
\* response is sent.
GuardsRejectWithoutActing ==
    /\ [][\A t \in Callers :
            /\ pc[t] = "idle"
            /\ response[t] = "none"
            /\ HandlerActs(t)
            /\ \/ request[t] \in {"stop", "update-engine", "stats"} /\ ~running
               \/ request[t] = "start" /\ running
            => /\ response'[t] = (IF request[t] = "start" THEN "already running"
                                                          ELSE "not running")
               /\ pc'[t] = "idle"
               /\ running' = running
               /\ UNCHANGED <<position, funds>>]_vars
    /\ [](\A t \in Callers :
            response[t] \in {"not running", "already running"}
            => pc[t] = "idle" /\ fn[t] = "none" /\ txs[t] = <<>>)

\* One request thread holds the rejection of a /start and the other the
\* rejection of a /stop.
RejectedBothWays ==
    \E t, u \in Callers :
        /\ request[t] = "start" /\ response[t] = "already running"
        /\ request[u] = "stop" /\ response[u] = "not running"

\* C25: the history is append-only.  No step makes the list shorter, no step
\* changes a record other than the last one (so none is removed, replaced or
\* moved), and a step that makes the list longer keeps every record it held.
HistoryIsAppendOnly ==
    [][/\ Len(position_history') >= Len(position_history)
       /\ \A i \in 1 .. Len(position_history) - 1 :
            position_history'[i] = position_history[i]
       /\ Len(position_history') > Len(position_history)
          => position_history'[Len(position_history)] = Last(position_history)]_vars

\* A history of two records whose last record an operation has rewritten,
\* under the first record as it was loaded.
LastRecordRewrittenUnderFirst ==
    /\ Len(position_history) = 2
    /\ position_history[1] = StoredRecord(1, FALSE)
    /\ position_history[2].last_update > 0
    /\ ~position_history[2].is_open

\* --------------------------------------------- TokenManager: price <-> tick
\* uniswap_math/TokenManagement.py.  A float that stands for a price is
\* represented by its logarithm to the base 1.0001, in LogUnit-ths of a tick:
\* multiplying prices adds their representations, 1/x negates it, and the
\* integer part of the logarithm is a division by LogUnit.

\* Ticks given to tick_to_price range over -MaxRangeTick .. MaxRangeTick.
MaxRangeTick == 3
RangeTicks == (0 - MaxRangeTick) .. MaxRangeTick

\* Resolution of the representation: a tenth of a tick.
LogUnit == 10

\* log(10, 1.0001) = 23027.0 ticks, in LogUnit-ths.
Decade == 230270

\* token0_decimal - token1_decimal as lines 136 and 107 compute it: a pool of
\* a 6-decimal and an 18-decimal token, and a pool of two 18-decimal tokens.
DecimalDiffs == {0 - 12, 0}

\* The error a chain of float operations leaves in its result, in LogUnit-ths
\* (far smaller in the code; what matters is on which side of an integer the
\* logarithm falls).
Roundings == {0 - 1, 0, 1}

\* Prices given to get_ranges: log(1000, 1.0001) = 69081.0 ticks and
\* log(0.5, 1.0001) = -6931.8 ticks.
RangePrices == {690810, 0 - 69318}

\* Percentages given to get_ranges, in thousandths of a percent.
Percentages == {1, 1000, 10000}

\* log(1 + percentage / 100, 1.0001) in LogUnit-ths: 0.1 tick for 0.001 %,
\* 99.5 ticks for 1 %, 953.1 ticks for 10 %.
log_growth(percentage) ==
    CASE percentage = 1 -> 1
      [] percentage = 1000 -> 995
      [] percentage = 10000 -> 9531

\* tick_to_price, lines 135-137: 1 / (1.0001 ** tick * 10 ** decimal_diff).
tick_to_price(tick, decimal_diff) == 0 - (tick * LogUnit + decimal_diff * Decade)

\* price_to_sqrt_price_x_96, lines 109-112: sqrt(10 ** decimal_diff * price) *
\* Q96, represented by the logarithm of its quotient by Q96 to the base
\* sqrt(1.0001).
price_to_sqrt_price_x_96(price, decimal_diff) == price + decimal_diff * Decade

\* sqrt_price_x_96_to_tick, lines 96-98: int(abs(math.log(price / Q96, base))).
sqrt_price_x_96_to_tick(price) == abs(price) \div LogUnit

\* price_to_tick, lines 149-151; `rounding` is the float error of the chain.
price_to_tick(price, decimal_diff, rounding) ==
    sqrt_price_x_96_to_tick(price_to_sqrt_price_x_96(price, decimal_diff) + rounding)

\* get_ranges, lines 179-192.
get_ranges(percentage, current_price, decimal_diff, roundings) ==
    LET upper_range == current_price + log_growth(percentage)
        lower_range == current_price - log_growth(percentage)
    IN  [lower_range   |-> lower_range,
         current_price |-> current_price,
         upper_range   |-> upper_range,
         lower_tick    |-> price_to_tick(upper_range, decimal_diff, roundings[2]),
         current_tick  |-> price_to_tick(current_price, decimal_diff, roundings[3]),
         upper_tick    |-> price_to_tick(lower_range, decimal_diff, roundings[1])]

\* The manager, the venue and the engine while a function is called on its
\* own: not involved.
manager_not_involved ==
    /\ history_file = [exists |-> FALSE, content |-> <<>>]
    /\ confirmed = [i \in 1 .. MaxHistory |-> {}]
    /\ position_history = <<>>
    /\ lock = FALSE
    /\ cex_credentials = FALSE
    /\ burn_on_close = FALSE
    /\ pc = [t \in Callers |-> "idle"]
    /\ fn = [t \in Callers |-> "none"]
    /\ op = [t \in Callers |-> "none"]
    /\ site = [t \in Callers |-> "none"]
    /\ exc = [t \in Callers |-> "none"]
    /\ current_tick = [t \in Callers |-> 0]
    /\ token_id = [t \in Callers |-> 0]
    /\ txs = [t \in Callers |-> <<>>]
    /\ subcalls = [t \in Callers |-> <<>>]
    /\ branch = [t \in Callers |-> "none"]
    /\ funds_at_rest
    /\ amount0 = 0
    /\ amount1 = 0
    /\ maximum_spread_bps = 0
    /\ engine_absent

\* A TokenManager whose functions are called on their own, as
\* test_uniswap_math.py calls them.
TokenManagerInit ==
    /\ manager_not_involved
    /\ unit_result = [fn |-> "none"]
    /\ \/ /\ unit_pc = "tick_to_price"
          /\ unit_args \in [fn : {"tick_to_price"}, tick : RangeTicks,
                            decimal_diff : DecimalDiffs]
       \/ /\ unit_pc = "get_ranges"
          /\ unit_args \in [fn : {"get_ranges"}, percentage : Percentages,
                            current_price : RangePrices, decimal_diff : DecimalDiffs]

\* tick_to_price is called on the tick drawn.
tick_to_price_call ==
    /\ unit_pc = "tick_to_price"
    /\ \E rounding \in Roundings :
         unit_result' =
           [fn |-> "tick_to_price",
            price |-> tick_to_price(unit_args.tick, unit_args.decimal_diff) + rounding]
    /\ unit_pc' = "price_to_tick"
    /\ UNCHANGED <<position, funds, engine, unit_args>>

\* price_to_tick is called on the price tick_to_price returned.
price_to_tick_call ==
    /\ unit_pc = "price_to_tick"
    /\ \E rounding \in Roundings :
         unit_result' =
           [fn |-> "price_to_tick",
            price |-> unit_result.price,
            tick |-> price_to_tick(unit_result.price, unit_args.decimal_diff, rounding)]
    /\ unit_pc' = "done"
    /\ UNCHANGED <<position, funds, engine, unit_args>>

\* get_ranges is called on the percentage and the price drawn.
get_ranges_call ==
    /\ unit_pc = "get_ranges"
    /\ \E roundings \in [1 .. 3 -> Roundings] :
         unit_result' =
           [fn |-> "get_ranges"] @@
           get_ranges(unit_args.percentage, unit_args.current_price,
                      unit_args.decimal_diff, roundings)
    /\ unit_pc' = "done"
    /\ UNCHANGED <<position, funds, engine, unit_args>>

TokenManagerNext ==
    \/ tick_to_price_call
    \/ price_to_tick_call
    \/ get_ranges_call

TokenManagerSpec == TokenManagerInit /\ [][TokenManagerNext]_vars

\* C29: converting a tick to a price and back gives the tick again, up to one
\* tick of quantization, for negative, zero and positive ticks.
RoundTripWithinOneTick ==
    unit_result.fn = "price_to_tick"
    => abs(unit_result.tick - unit_args.tick) <= 1

\* C30: get_ranges puts the price strictly between price / (1 + p) and
\* price * (1 + p), gives the tick of the lower price as upper_tick and the
\* tick of the upper price as lower_tick, and returns ticks that bracket the
\* current tick strictly.
GetRangesBracketsCurrentTick ==
    unit_result.fn = "get_ranges"
    => /\ unit_result.lower_range = unit_args.current_price - log_growth(unit_args.percentage)
       /\ unit_result.upper_range = unit_args.current_price + log_growth(unit_args.percentage)
       /\ unit_result.lower_range < unit_result.current_price
       /\ unit_result.current_price < unit_result.upper_range
       /\ \E rounding \in Roundings :
            unit_result.upper_tick =
              price_to_tick(unit_result.lower_range, unit_args.decimal_diff, rounding)
       /\ \E rounding \in Roundings :
            unit_result.lower_tick =
              price_to_tick(unit_result.upper_range, unit_args.decimal_diff, rounding)
       /\ unit_result.lower_tick < unit_result.current_tick
       /\ unit_result.current_tick < unit_result.upper_tick

\* ------------------------- open_position: the amounts and the record built
\* The statements of calculate_position_range_and_amounts after the range
\* computation (web_manager.py lines 1315-1335) and the statements of
\* open_position that use their result (lines 1401-1407, 1431-1465), applied
\* on their own to the balances and the tick the venue reports.  In the
\* running manager line 1294 raises before any of them (see
\* open_position_calculate).

\* Wallet balances range over 0 .. MaxWalletBalance twentieths of an ether.
MaxWalletBalance == 3
WalletBalances == 0 .. MaxWalletBalance

\* w3.toWei(0.1, "ether"), lines 1320 and 1322, in twentieths of an ether.
gas_buffer == 2

\* Which of the pool's tokens has the symbol WETH (lines 1319, 1321).
WethSides == {"token0", "token1", "none"}

\* lines 1318-1335: the dict calculate_position_range_and_amounts returns.
range_amounts(args) ==
    [amount0       |-> IF args.weth = "token0"
                       THEN args.token0Balance - gas_buffer ELSE args.token0Balance,
     amount1       |-> IF args.weth = "token1"
                       THEN args.token1Balance - gas_buffer ELSE args.token1Balance,
     tick_lower    |-> args.tick_low,
     tick_upper    |-> args.tick_high,
     tick_current  |-> args.current_tick,
     price_current |-> PriceOf(args.current_tick)]

\* lines 1401-1407, 1432 and 1452-1462: the dict open_position appends (the
\* symbols, addresses, receipt amounts, message and url are left out).
open_position_history(amounts_and_range, tokenId, time) ==
    [is_open       |-> TRUE,
     amount0       |-> amounts_and_range.amount0,
     amount1       |-> amounts_and_range.amount1,
     tick_lower    |-> amounts_and_range.tick_lower,
     tick_upper    |-> amounts_and_range.tick_upper,
     tick_current  |-> amounts_and_range.tick_current,
     price_current |-> amounts_and_range.price_current,
     tokenID       |-> tokenId,
     tx_mint       |-> "tx",
     tx_swap       |-> "none",
     last_update   |-> time]

\* The locals of calculate_position_range_and_amounts at line 1317: what
\* update_wallet_balance and get_current_tick returned, and a range around the
\* tick.
OpenAmountsInit ==
    /\ manager_not_involved
    /\ unit_pc = "calculate_position_range_and_amounts"
    /\ unit_result = [fn |-> "none"]
    /\ \E tick \in Ticks, delta \in 1 .. 2 :
         unit_args \in [fn : {"open_position"},
                        token0Balance : WalletBalances,
                        token1Balance : WalletBalances,
                        weth : WethSides,
                        current_tick : {tick},
                        tick_low : {tick - delta},
                        tick_high : {tick + delta}]

\* calculate_position_range_and_amounts, lines 1318-1335.
calculate_position_range_and_amounts_return ==
    /\ unit_pc = "calculate_position_range_and_amounts"
    /\ unit_result' = [fn |-> "calculate_position_range_and_amounts",
                       range_amounts |-> range_amounts(unit_args)]
    /\ unit_pc' = "mint_liquidity"
    /\ UNCHANGED <<position, funds, engine, unit_args>>

\* The ways one execution of mint_liquidity's body ends (uniswap.py 451-525):
\* an exception before sendRawTransaction (the contract call encodes the
\* amounts as uint256, which a negative int always fails), the receipt, or an
\* exception from wait_for_transaction_receipt after the broadcast.
MintOutcomes(passed) ==
    IF passed.amount0 < 0 \/ passed.amount1 < 0
    THEN {"not_sent"}
    ELSE {"not_sent", "mined", "sent_receipt_failed"}

\* open_position, lines 1435-1441: mint_liquidity is called with the amounts
\* of the dict; each step is one execution of its body under the retry
\* decorator (uniswap.py 14-46, 436).
open_position_mint ==
    /\ unit_pc = "mint_liquidity"
    /\ LET passed == unit_result.range_amounts
           first == unit_result.fn # "mint_liquidity"
           attempts == IF first THEN 0 ELSE unit_result.attempts
           broadcasts == IF first THEN 0 ELSE unit_result.broadcasts
       IN  \E outcome \in MintOutcomes(passed) :
             LET retried == outcome # "mined" /\ retry_on_exception(attempts) = "retry"
                 raised == outcome # "mined" /\ ~retried
             IN  /\ unit_result' = [fn |-> "mint_liquidity",
                                    range_amounts |-> passed,
                                    amount_0 |-> passed.amount0,
                                    amount_1 |-> passed.amount1,
                                    attempts |-> IF retried THEN attempts + 1 ELSE attempts,
                                    broadcasts |-> IF outcome = "not_sent" THEN broadcasts
                                                   ELSE broadcasts + 1,
                                    raised |-> raised]
                 /\ unit_pc' = IF outcome = "mined" THEN "append"
                               ELSE IF retried THEN "mint_liquidity" ELSE "done"
    /\ UNCHANGED <<position, funds, engine, unit_args>>

\* open_position, lines 1443-1465: the record is completed and appended.
open_position_append ==
    /\ unit_pc = "append"
    /\ \E time \in Times :
         unit_result' = [fn |-> "open_position",
                         history |-> open_position_history(unit_result.range_amounts, 1, time)]
    /\ unit_pc' = "done"
    /\ UNCHANGED <<position, funds, engine, unit_args>>

OpenAmountsNext ==
    \/ calculate_position_range_and_amounts_return
    \/ open_position_mint
    \/ open_position_append

OpenAmountsSpec == OpenAmountsInit /\ [][OpenAmountsNext]_vars

log_half_growth(percentage) ==
    CASE percentage = 1 -> 0
      [] percentage = 1000 -> 498
      [] percentage = 10000 -> 4879

\* int() of a float given in LogUnit-ths: truncation towards zero.
int_of(x) == IF x >= 0 THEN x \div LogUnit ELSE 0 - ((0 - x) \div LogUnit)

\* How range_from_tick is reached: as an attribute of an instance
\* (web_manager.py line 1294, self.tokenManager.range_from_tick) or as an
\* attribute of the class.
Receivers == {"instance", "class"}

\* range_from_tick is defined in the class body with the parameters
\* (currentTick, percentage) and no self (line 194): reached through an
\* instance, the instance is bound to currentTick, and the keyword argument
\* currentTick= of the call is a second value for it.
range_from_tick_binding(receiver) ==
    IF receiver = "instance" THEN "TypeError" ELSE "none"

\* range_from_tick, lines 205-210.
range_from_tick(currentTick, percentage, rounding) ==
    LET deltaTick == int_of(log_half_growth(percentage) + rounding)
    IN  [lowerTick |-> currentTick - deltaTick, upperTick |-> currentTick + deltaTick]

\* Square roots of prices given to the amount functions: 1 .. MaxSqrtPrice
\* for the range bounds, one more for the current price.
MaxSqrtPrice == 4
SqrtPrices == 1 .. MaxSqrtPrice

\* target_amount and self.liquidity, in thousands.
Capital == {1, 2}

\* Amounts are kept in thousandths, as int() of the float.
Milli == 1000

\* calculate_liquidity_amounts, lines 315-347, on the square roots SMIN, SMAX
\* and sqrt0 of lines 315-325 (the price is sqrt0 * sqrt0): deltaL and the two
\* amounts of each of the three branches.
calculate_liquidity_amounts(SMIN, SMAX, sqrt0, target_amount) ==
    IF SMIN < sqrt0 /\ sqrt0 < SMAX
    THEN \* deltaL = target / ((sqrt0 - SMIN) + (1/sqrt0 - 1/SMAX) * price)
         LET denominator == SMAX * (2 * sqrt0 - SMIN) - sqrt0 * sqrt0
         IN  [amount0 |-> (Milli * target_amount * (SMAX - sqrt0)) \div (sqrt0 * denominator),
              amount1 |-> (Milli * target_amount * SMAX * (sqrt0 - SMIN)) \div denominator]
    ELSE IF sqrt0 < SMIN
    THEN \* deltaL = target / ((1/SMIN - 1/SMAX) * price); amount0 = target / price
         [amount0 |-> (Milli * target_amount) \div (sqrt0 * sqrt0),
          amount1 |-> 0]
    ELSE \* deltaL = target / (SMAX - SMIN); amount1 = target
         [amount0 |-> 0,
          amount1 |-> Milli * target_amount]

\* get_amounts, lines 273-295, which calculate_amounts (lines 349-361) calls
\* with the range and the liquidity of the constructor; the factors 2**96 and
\* the decimals cancel between the square roots and the amount formulas.
get_amounts(sqrt, sqrtA, sqrtB, liquidity) ==
    IF sqrt <= sqrtA
    THEN [amount0 |-> (Milli * liquidity * (sqrtB - sqrtA)) \div (sqrtB * sqrtA),
          amount1 |-> 0]
    ELSE IF sqrt < sqrtB /\ sqrt > sqrtA
    THEN [amount0 |-> (Milli * liquidity * (sqrtB - sqrt)) \div (sqrtB * sqrt),
          amount1 |-> Milli * liquidity * (sqrt - sqrtA)]
    ELSE [amount0 |-> 0,
          amount1 |-> Milli * liquidity * (sqrtB - sqrtA)]

\* The range and amount functions of a TokenManager called on their own.
TokenManagerAmountsInit ==
    /\ manager_not_involved
    /\ unit_result = [fn |-> "none"]
    /\ \/ /\ unit_pc = "range_from_tick"
          /\ unit_args \in [fn : {"range_from_tick"}, receiver : Receivers,
                            currentTick : RangeTicks, percentage : Percentages]
       \/ /\ unit_pc \in {"calculate_liquidity_amounts", "calculate_amounts"}
          /\ \E low \in SqrtPrices, high \in SqrtPrices :
               /\ low < high
               /\ unit_args \in [fn : {unit_pc}, low : {low}, high : {high},
                                 current : 1 .. MaxSqrtPrice + 1, capital : Capital]

\* range_from_tick is called with currentTick= and percentage=.
range_from_tick_call ==
    /\ unit_pc = "range_from_tick"
    /\ IF range_from_tick_binding(unit_args.receiver) # "none"
       THEN unit_result' = [fn |-> "range_from_tick",
                            raised |-> range_from_tick_binding(unit_args.receiver)]
       ELSE \E rounding \in Roundings :
              unit_result' =
                [fn |-> "range_from_tick", raised |-> "none"] @@
                range_from_tick(unit_args.currentTick, unit_args.percentage, rounding)
    /\ unit_pc' = "done"
    /\ UNCHANGED <<position, funds, engine, unit_args>>

\* calculate_liquidity_amounts is called (as the constructor calls it, line 59).
calculate_liquidity_amounts_call ==
    /\ unit_pc = "calculate_liquidity_amounts"
    /\ unit_result' =
         [fn |-> "calculate_liquidity_amounts"] @@
         calculate_liquidity_amounts(unit_args.low, unit_args.high, unit_args.current,
                                     unit_args.capital)
    /\ unit_pc' = "done"
    /\ UNCHANGED <<position, funds, engine, unit_args>>

\* calculate_amounts is called with a refreshed price.
calculate_amounts_call ==
    /\ unit_pc = "calculate_amounts"
    /\ unit_result' =
         [fn |-> "calculate_amounts"] @@
         get_amounts(unit_args.current, unit_args.low, unit_args.high, unit_args.capital)
    /\ unit_pc' = "done"
    /\ UNCHANGED <<position, funds, engine, unit_args>>

TokenManagerAmountsNext ==
    \/ range_from_tick_call
    \/ calculate_liquidity_amounts_call
    \/ calculate_amounts_call

TokenManagerAmountsSpec == TokenManagerAmountsInit /\ [][TokenManagerAmountsNext]_vars

\* C32: range_from_tick, called the way calculate_position_range_and_amounts
\* calls it, returns (current_tick - D, current_tick + D) with D the integer
\* part of log(1 + percentage / 200, 1.0001): a range symmetric about the
\* current tick that contains it, with lower < upper when D >= 1.
RangeFromTickReturnsSymmetricRange ==
    unit_result.fn = "range_from_tick" /\ unit_args.receiver = "instance"
    => /\ unit_result.raised = "none"
       /\ \E rounding \in Roundings :
            LET D == int_of(log_half_growth(unit_args.percentage) + rounding)
            IN  /\ unit_result.lowerTick = unit_args.currentTick - D
                /\ unit_result.upperTick = unit_args.currentTick + D
                /\ D >= 1 => unit_result.lowerTick < unit_result.upperTick
       /\ unit_result.lowerTick <= unit_args.currentTick
       /\ unit_args.currentTick <= unit_result.upperTick

\* C31: outside the range one asset only: below the range amount0 = 0 (asset1
\* only), above the range amount1 = 0 (asset0 only), for
\* calculate_liquidity_amounts and for calculate_amounts.
OutsideRangeOneAssetOnly ==
    unit_result.fn \in {"calculate_liquidity_amounts", "calculate_amounts"}
    => /\ unit_args.current < unit_args.low
          => unit_result.amount0 = 0 /\ unit_result.amount1 > 0
       /\ unit_args.current > unit_args.high
          => unit_result.amount1 = 0 /\ unit_result.amount0 > 0

\* No request is being handled.
NoRequestInFlight ==
    serving /\ \A t \in Callers : request[t] = "none" /\ pc[t] = "idle"

\* C33: whenever no engine operation is in flight, engine.running is True
\* exactly when the history is non-empty and its last record is open.
RunningIffLastRecordOpen ==
    NoRequestInFlight
    => (running <=> (Len(position_history) > 0 /\ Last(position_history).is_open))

MaxElapsed == 4

\* client.py line 517: the literal 60 (seconds) of the no-quote test.
NoQuoteSeconds == 2

\* Values of the block_trading_deadline setting (web_manager.py 159-161, 822):
\* 30, 60 (the default) and 90 seconds.
Deadlines == {1, 2, 3}

\* Values of the maximum_spread_bps setting (web_manager.py 173-175, 823).
MaximumSpreads == {3, 25}

TradeSides == {"buy", "sell"}

TradeSymbols == {"ETH-USDT", "ETH-USDC"}

TradeAmounts == {1, 2}

\* The quotes the counterparties can have placed on the RFQ.
QuoteBook ==
    { [quoteId |-> "B1", quoteSide |-> "buy", px |-> 10000],
      [quoteId |-> "B2", quoteSide |-> "buy", px |-> 10010],
      [quoteId |-> "S1", quoteSide |-> "sell", px |-> 10002],
      [quoteId |-> "S2", quoteSide |-> "sell", px |-> 9990] }

QuoteIds == {q.quoteId : q \in QuoteBook}

\* The "data" of one get_quotes response (client.py 500-501).
QuoteResponses ==
    { { [quoteId |-> q.quoteId, quoteSide |-> q.quoteSide, px |-> q.px,
         state |-> st[q.quoteId]] : q \in {b \in QuoteBook : st[b.quoteId] # "absent"} }
      : st \in [QuoteIds -> {"absent", "active", "expired"}] }

\* client.py 502-507.
sell_side(quotes) == {q \in quotes : q.quoteSide = "sell" /\ q.state = "active"}

buy_side(quotes) == {q \in quotes : q.quoteSide = "buy" /\ q.state = "active"}

\* client.py 533-534: ((sell_px / buy_px) - 1) * 10000 rounded to two
\* decimals, here in hundredths of a basis point.
spread_bps(sell_quote_px, buy_quote_px) ==
    (2 * (sell_quote_px - buy_quote_px) * 1000000 + buy_quote_px) \div (2 * buy_quote_px)

\* client.py 523-537.
spread_bps_list(quotes, side) ==
    { [buy_quote_px |-> buy_quote.px,
       spread_bps |-> spread_bps(sell_quote.px, buy_quote.px),
       sell_quote_px |-> sell_quote.px,
       quote_id |-> IF side = "sell" THEN buy_quote.quoteId ELSE sell_quote.quoteId]
      : sell_quote \in sell_side(quotes), buy_quote \in buy_side(quotes) }

\* client.py 549-556, without the order.
filtered_spreads(spreads, max_bps) ==
    {s \in spreads : /\ 0 - max_bps * 100 <= s.spread_bps
                     /\ s.spread_bps <= max_bps * 100}

\* client.py 555, 573: the first element of the list sorted by spread.
best_spread(filtered) ==
    CHOOSE s \in filtered : \A o \in filtered : s.spread_bps <= o.spread_bps

\* client.py 516-578: what one pass of the loop does with the quotes it got
\* and the seconds elapsed since start_time.
loop_pass(quotes, side, max_bps, deadline, now) ==
    LET filtered == filtered_spreads(spread_bps_list(quotes, side), max_bps)
    IN  IF (sell_side(quotes) = {} \/ buy_side(quotes) = {}) /\ now > NoQuoteSeconds
        THEN "BlockTradingNoQuote"
        ELSE IF filtered = {} /\ now < deadline THEN "sleep"
        ELSE IF now > deadline THEN "BlockTradingTimeOut"
        ELSE IF filtered = {} THEN "IndexError"
        ELSE "execute_quote"

BlockTradeInit ==
    /\ manager_not_involved
    /\ unit_at_rest

\* make_block_trade, lines 815-824, and client.py 458-497: the RFQ is created
\* and the timer started.
make_block_trade ==
    /\ unit_pc = "idle"
    /\ unit_args' \in [fn : {"make_block_trade"},
                       symbol : TradeSymbols,
                       side : TradeSides,
                       amount : TradeAmounts,
                       deadline : Deadlines,
                       maximum_spread_bps : MaximumSpreads]
    /\ unit_result' = [fn |-> "make_single_leg_block_trade",
                       elapsed |-> 0,
                       quotes |-> {},
                       both_sides |-> FALSE,
                       executed |-> <<>>,
                       raised |-> "none"]
    /\ unit_pc' = "get_quotes"
    /\ UNCHANGED <<position, funds, engine>>

\* client.py 499-578: one pass of the while loop.
get_quotes_pass ==
    /\ unit_pc = "get_quotes"
    /\ \E quotes \in QuoteResponses, now \in unit_result.elapsed .. MaxElapsed :
         LET outcome == loop_pass(quotes, unit_args.side, unit_args.maximum_spread_bps,
                                  unit_args.deadline, now)
             filtered == filtered_spreads(spread_bps_list(quotes, unit_args.side),
                                          unit_args.maximum_spread_bps)
         IN  /\ outcome = "sleep" => now < MaxElapsed
             /\ unit_result' =
                  [unit_result EXCEPT
                     !.elapsed = IF outcome = "sleep" THEN now + 1 ELSE now,
                     !.quotes = quotes,
                     !.both_sides = @ \/ (sell_side(quotes) # {} /\ buy_side(quotes) # {}),
                     !.executed = IF outcome = "execute_quote"
                                  THEN Append(@, best_spread(filtered)) ELSE @,
                     !.raised = IF outcome \in {"sleep", "execute_quote"} THEN "none"
                                ELSE outcome]
             /\ unit_pc' = CASE outcome = "sleep" -> "get_quotes"
                             [] outcome = "execute_quote" -> "returned"
                             [] OTHER -> "raised"
    /\ UNCHANGED <<position, funds, engine, unit_args>>

\* handle_no_quote_exception, lines 836-841.
alternate_symbol(cex_symbol) ==
    IF cex_symbol = "ETH-USDT" THEN "ETH-USDC"
    ELSE IF cex_symbol = "ETH-USDC" THEN "ETH-USDT"
    ELSE "Exception"

\* handle_no_quote_exception, lines 845-847: the arguments of the block trade
\* on the alternate pair.
handle_no_quote_exception(trade) ==
    [symbol |-> alternate_symbol(trade.symbol),
     side |-> "buy",
     amount |-> trade.amount]

\* block_trade_okx_blocktrading, lines 885-886, taken on its own: the
\* BlockTradingNoQuote clause hands the request to handle_no_quote_exception.
no_quote_fallback ==
    /\ unit_pc = "raised"
    /\ unit_result.raised = "BlockTradingNoQuote"
    /\ unit_result' = [fn |-> "handle_no_quote_exception",
                       token_swap |-> handle_no_quote_exception(unit_args)]
    /\ unit_pc' = "fallback"
    /\ UNCHANGED <<position, funds, engine, unit_args>>

\* The caller is back where it can trade again.
block_trade_done ==
    /\ unit_pc \in {"returned", "raised", "fallback"}
    /\ unit_pc' = "idle"
    /\ unit_args' = [fn |-> "none"]
    /\ unit_result' = [fn |-> "none"]
    /\ UNCHANGED <<position, funds, engine>>

BlockTradeNext ==
    \/ make_block_trade
    \/ get_quotes_pass
    \/ no_quote_fallback
    \/ block_trade_done

BlockTradeSpec == BlockTradeInit /\ [][BlockTradeNext]_vars

\* The spreads of all pairs of active counter-quotes of the last response.
ActiveSpreads == {s.spread_bps : s \in spread_bps_list(unit_result.quotes, unit_args.side)}

\* C35: at most one quote is executed per RFQ, and the executed quote is of
\* the pair with the lowest spread among all active counter-quote pairs, that
\* spread being within +/- maximum_spread_bps.
ExecutesLowestSpreadOfAllPairs ==
    unit_result.fn = "make_single_leg_block_trade"
    => /\ Len(unit_result.executed) <= 1
       /\ \A i \in 1 .. Len(unit_result.executed) :
            /\ \A o \in ActiveSpreads : unit_result.executed[i].spread_bps <= o
            /\ unit_result.executed[i].spread_bps <= unit_args.maximum_spread_bps * 100
            /\ unit_result.executed[i].spread_bps >= 0 - unit_args.maximum_spread_bps * 100

\* C36: whatever the deadline setting, the call ends with BlockTradingTimeOut
\* only if active quotes were there on both sides at some pass; with none
\* in the whole wait it is BlockTradingNoQuote that ends the call, not
\* BlockTradingTimeOut.
TimeOutOnlyWithQuotes ==
    (unit_result.fn = "make_single_leg_block_trade"
     /\ unit_result.raised = "BlockTradingTimeOut")
    => unit_result.both_sides

FineDecimals == 4

MaxTradingBalance == 25

\* Trading balances the venue may report (get_cex_balances, lines 474-495).
TradingBalances == 0 .. MaxTradingBalance

\* required_amount{0,1}_decimal of the amounts dict (lines 525-544), fee
\* included.
RequiredDecimals == {10, 15, 20}

\* Rounding to the nearest multiple instead of down.
round_half_up(number, decimals) ==
    LET step == 10 ^ (FineDecimals - decimals)
    IN  ((2 * number + step) \div (2 * step)) * step

\* round_down, lines 60-63: math.floor(number * factor) / factor.
round_down(number, decimals) ==
    LET step == 10 ^ (FineDecimals - decimals)
    IN  (number \div step) * step

WithdrawAmountsInit ==
    /\ manager_not_involved
    /\ unit_pc = "get_amounts"
    /\ unit_result = [fn |-> "none"]
    /\ unit_args \in [fn : {"swap_amounts_okx_blocktrading"},
                      trading_balance0 : TradingBalances,
                      trading_balance1 : TradingBalances,
                      required_amount0_decimal : RequiredDecimals,
                      required_amount1_decimal : RequiredDecimals]

\* lines 997-1010: the amounts are read again, the two CEX balances are
\* rounded down to 3 decimals, and the keys of what to move are chosen.  The
\* division of lines 1105-1114 fails on a balance that rounds to zero.
round_and_check_amounts ==
    /\ unit_pc = "get_amounts"
    /\ LET a == [required_amount0_decimal |-> unit_args.required_amount0_decimal,
                 required_amount1_decimal |-> unit_args.required_amount1_decimal,
                 cex_existing_amount0_decimal |-> round_down(unit_args.trading_balance0, 3),
                 cex_existing_amount1_decimal |-> round_down(unit_args.trading_balance1, 3)]
           zero == a.cex_existing_amount0_decimal = 0 \/ a.cex_existing_amount1_decimal = 0
       IN  /\ unit_result' = [fn |-> "check_required_and_existing_amounts",
                              amounts |-> a,
                              withdraw_amount |-> IF zero THEN <<"none", "none">>
                                                  ELSE check_required_and_existing_amounts(a),
                              requests |-> <<>>,
                              raised |-> IF zero THEN "ZeroDivisionError" ELSE "none"]
           /\ unit_pc' = IF zero THEN "raised" ELSE "transfer0"
    /\ UNCHANGED <<position, funds, engine, unit_args>>

\* lines 1013-1026 and 697-711: amounts[amounts_key] of token k is the amt of
\* the transfer from the sub-account's trading account.
transfer_funds_from_sub_to_main(k) ==
    /\ unit_pc = Label("transfer", k)
    /\ unit_result' = [unit_result EXCEPT
                         !.requests = Append(@, [kind |-> "transfer", token |-> k,
                                                 amount |-> unit_result.amounts[unit_result.withdraw_amount[k + 1]]])]
    /\ unit_pc' = IF k = 0 THEN "transfer1" ELSE "withdraw0"
    /\ UNCHANGED <<position, funds, engine, unit_args>>

\* lines 1031-1047 and 793-797: amounts[amounts_key] of token k is handed to
\* withdraw_from_mainaccount, which takes the fee out of it (client.py
\* 435-443: amt = amount - max_fee, fee = max_fee).
withdraw_amounts(k) ==
    /\ unit_pc = Label("withdraw", k)
    /\ LET amount == unit_result.amounts[unit_result.withdraw_amount[k + 1]]
       IN  unit_result' = [unit_result EXCEPT
                             !.requests = Append(@, [kind |-> "withdraw", token |-> k,
                                                     amount |-> amount,
                                                     amt |-> amount - maxFee,
                                                     fee |-> maxFee])]
    /\ unit_pc' = IF k = 0 THEN "withdraw1" ELSE "returned"
    /\ UNCHANGED <<position, funds, engine, unit_args>>

WithdrawAmountsNext ==
    \/ round_and_check_amounts
    \/ \E k \in 0 .. 1 : transfer_funds_from_sub_to_main(k)
    \/ \E k \in 0 .. 1 : withdraw_amounts(k)

WithdrawAmountsSpec == WithdrawAmountsInit /\ [][WithdrawAmountsNext]_vars

\* What the sub-account holds of token k, and what the position needs of it.
TradingBalance(k) ==
    IF k = 0 THEN unit_args.trading_balance0 ELSE unit_args.trading_balance1

RequiredDecimal(k) ==
    IF k = 0 THEN unit_args.required_amount0_decimal ELSE unit_args.required_amount1_decimal

Smaller(a, b) == IF a <= b THEN a ELSE b

\* C38: for each token, the amount of the transfer to the main account and of
\* the withdrawal is the smaller of the required amount and the trading
\* balance rounded down to 3 decimals; it is never more than the trading
\* balance.
MovesSmallerOfRequiredAndRoundedBalance ==
    unit_result.fn = "check_required_and_existing_amounts"
    => \A i \in 1 .. Len(unit_result.requests) :
         LET r == unit_result.requests[i]
         IN  /\ r.amount = Smaller(RequiredDecimal(r.token),
                                   round_down(TradingBalance(r.token), 3))
             /\ r.amount <= TradingBalance(r.token)
             /\ r.kind = "withdraw" => r.amt + r.fee = r.amount

\* Both tokens transferred and withdrawn, one capped by a balance that is not
\* a multiple of the third decimal, the other by the requirement.
MovedCappedAndRequired ==
    /\ unit_pc = "returned"
    /\ Len(unit_result.requests) = 4
    /\ unit_args.trading_balance0 = 19
    /\ unit_args.required_amount0_decimal = 20
    /\ unit_result.requests[1].amount = 10
    /\ unit_result.requests[3].amount = 10
    /\ unit_args.trading_balance1 = 25
    /\ unit_args.required_amount1_decimal = 15
    /\ unit_result.requests[2].amount = 15
    /\ unit_result.requests[4].amount = 15

\* swap_amounts_uniswap, lines 1212 and 1237: the amount handed to
\* swap_token_input as amount_in (line 1256), for the branch taken.
swapAmount(a) ==
    IF swap_amounts_uniswap_branch(a) = "swap_token1_for_token0"
    THEN a.required_amount0 - a.existing_amount0
    ELSE a.required_amount1 - a.existing_amount1

\* What the wallet holds of the input token of the swap (lines 1213, 1238)
\* beyond that token's own requirement.
InputTokenSurplus(a) ==
    IF swap_amounts_uniswap_branch(a) = "swap_token1_for_token0"
    THEN a.existing_amount1 - a.required_amount1
    ELSE a.existing_amount0 - a.required_amount0

\* C39: the amount_in of a swap submitted by swap_amounts_uniswap is an
\* amount of the input token that the wallet can spare: it does not exceed
\* the input token's balance less its own requirement.
SwapAmountWithinInputSurplus ==
    (/\ funds_op = "swap_amounts_uniswap"
     /\ Len(steps) > 0
     /\ steps[Len(steps)].step \in {"swap_token1_for_token0", "swap_token0_for_token1"})
    => swapAmount(amounts) <= InputTokenSurplus(amounts)

====
